---- MODULE Spec2Model ----
(***************************************************************************)
(* State-machine model of runpod_manager: the PodConfig naming helpers     *)
(* (config.py), the PodManager lifecycle operations (core.py) and the      *)
(* provider they talk to.  One command-line invocation constructs one      *)
(* manager and runs one operation; every provider call of the operation    *)
(* is one step, so that the provider's state can change between calls.     *)
(***************************************************************************)
EXTENDS Integers, Sequences, FiniteSets, TLC

VARIABLES
    pods,            \* provider: the set of existing pod records
    nextId,          \* provider: number of the next pod id it assigns
    market,          \* provider: the GPU types it offers, with spot prices
    project,         \* PodConfig.project_name of the running manager
    podType,         \* pod_type argument of the running operation
    op,              \* the operation invoked ("none" before the first one)
    flag,            \* deploy_new_if_needed
    pc,              \* position of the running operation, "idle" if none
    fn,              \* the manager function that is running or ran last
    caller,          \* the frame waiting for the running function's result
    found,           \* result of the last _find_pod_by_type
    podId,           \* pod_id of start_pod / stop_pod / status_pod
    termId,          \* pod_id of terminate_pod
    current_status,  \* current_status of start_pod / stop_pod, status of
                     \* status_pod
    polled,          \* current_status of wait_for_status
    elapsed,         \* wait_for_status: time.time() - start_time
    detailed,        \* deploy_pod: detailed_gpus
    affordable,      \* deploy_pod: affordable_gpus (after the sort)
    idx,             \* deploy_pod: position of the creation loop
    podName,         \* deploy_pod: pod_name
    podParams,       \* deploy_pod: pod_params of the last create_pod call
    created,         \* deploy_pod: what that call gave, and the pod_id taken
                     \* from it
    log,             \* provider requests issued by this invocation, in order
    result,          \* value returned by the operation, once it has returned
    keyArg,          \* PodConfig: the api_key argument
    keyEnv,          \* the environment variable RUNPOD_API_KEY
    apiKey,          \* PodConfig.api_key
    cfgFile,         \* PodConfig: the file at config_file, if there is one
    cfgArgs,         \* PodConfig: the keyword overrides
    config,          \* PodConfig.config
    cfgPc,           \* position of the construction of the PodConfig
    exitCode,        \* exit code of cli.main, <<>> while it has not exited
    out,             \* the lines printed by this invocation (not verbose)
    listed,          \* what runpod.get_pods gave to the function looked at
    rival,           \* a second invocation that deploys at the same time
    timeout          \* wait_for_status: its timeout argument, the default
                     \* value while the function is not running

vars == <<pods, nextId, market, project, podType, op, flag, pc, fn, caller,
          found, podId, termId, current_status, polled, elapsed, detailed,
          affordable, idx, podName, podParams, created, log, result, keyArg,
          keyEnv, apiKey,
          cfgFile, cfgArgs, config, cfgPc, exitCode, out,
          listed, rival, timeout>>

\* the provider's state
provider == <<pods, nextId, market>>
\* the invocation: set by cli.main, never changed by the operation
invocation == <<project, podType, op, flag>>
\* the locals of deploy_pod
deployLocals == <<detailed, affordable, idx, podName, podParams, created>>
\* the PodConfig of the running manager
setup == <<keyArg, keyEnv, apiKey, cfgFile, cfgArgs, config, cfgPc>>

\* what only the specifications of single functions and of two
\* invocations change
aside == <<listed, rival, timeout>>

None == "None"

\* no listing has been looked at
NoListing == [raised |-> FALSE, pods |-> <<>>]

\* no second invocation
NoRival == [pc |-> "none", project |-> <<>>, podType |-> <<>>,
            affordable |-> <<>>, idx |-> 0, podName |-> <<>>,
            result |-> FALSE, overlap |-> FALSE, midway |-> FALSE]

----------------------------------------------------------------------------
(* Bounds of the model *)

\* at most this many pods are ever created by the provider
MaxPods == 2
\* at most this many GPU types are offered by the provider
MaxGpus == 2
\* the value of int(time.time()) used in pod names
Epoch == 12

(* Program constants *)

\* wait_for_status(..., timeout: int = 300)
WaitTimeout == 300
\* time.sleep(5)
PollInterval == 5
\* float(self.config.get('MAX_GPU_PRICE', '0.30')), in cents per hour
MaxGpuPrice == 30

----------------------------------------------------------------------------
(* Text: a string is a sequence of one-character strings *)

Projects == { <<"a">>, <<"a", "-", "m">> }
PodTypes == { <<"m">> }
Actions  == {"start", "stop", "restart", "status", "deploy", "terminate"}

\* the words that may be given as pod_type and as action
TypeArgs == PodTypes \cup { <<"x">> }
ActionArgs == Actions \cup {"bogus"}

\* a parser that takes any word
ParseAcceptsAll(type, a) == TRUE

\* create_parser: choices=pod_types, choices=[...six actions...]
ParseAccepts(type, a) == type \in PodTypes /\ a \in Actions

Digit(d) == <<"0", "1", "2", "3", "4", "5", "6", "7", "8", "9">>[d + 1]

\* str(int)
RECURSIVE FormatInt(_)
FormatInt(n) == IF n < 10 THEN <<Digit(n)>>
                ELSE FormatInt(n \div 10) \o <<Digit(n % 10)>>

\* str.startswith
StartsWith(s, p) == Len(s) >= Len(p) /\ SubSeq(s, 1, Len(p)) = p

\* PodConfig.get_pod_name_prefix
get_pod_name_prefix(proj, type) == proj \o <<"-">> \o type \o <<"-">>

\* PodConfig.get_pod_name
get_pod_name(proj, type, timestamp) ==
    proj \o <<"-">> \o type \o <<"-">> \o FormatInt(timestamp)

----------------------------------------------------------------------------
(* The provider *)

\* desiredStatus values of a pod
Statuses == {"RUNNING", "EXITED"}

PodUrlSuffix == "-5000.proxy.runpod.net"

IdOf(n) == <<"p1", "p2", "p3", "p4">>[n]

GpuId(i) == <<"g1", "g2", "g3", "g4">>[i]

\* an absent price is <<>>, a price of c cents per hour is <<c>>
NoPrice == <<>>

\* the spot prices a GPU type may have
Offers ==
    { [community |-> <<25>>, secure |-> NoPrice],
      [community |-> <<20>>, secure |-> <<10>>],
      [community |-> <<45>>, secure |-> <<10>>],
      [community |-> NoPrice, secure |-> <<30>>],
      [community |-> NoPrice, secure |-> NoPrice] }

Markets == UNION { [1..n -> Offers] : n \in 0..MaxGpus }

\* the market of the lifecycle specification
DefaultMarket == << [community |-> <<25>>, secure |-> NoPrice],
                    [community |-> <<45>>, secure |-> NoPrice] >>

\* a market with two GPU types within the price ceiling, the dearer first
CheapMarket == << [community |-> <<25>>, secure |-> NoPrice],
                  [community |-> <<20>>, secure |-> <<10>>] >>

\* all orders in which the provider may return the set S of pods
RECURSIVE Listings(_)
Listings(S) ==
    IF S = {} THEN { <<>> }
    ELSE UNION { { <<p>> \o l : l \in Listings(S \ {p}) } : p \in S }

\* runpod.get_pods: it raises, or returns the pods in an arbitrary order
GetPodsOutcomes ==
    {[raised |-> FALSE, pods |-> l] : l \in Listings(pods)}
        \cup {[raised |-> TRUE, pods |-> <<>>]}

\* the values of int(time.time())
Stamps == {Epoch}

(* runpod.create_pod: what the call gives.  A value has its Python type, *)
(* its text s (<<>> when it has none: None, or a dict without 'id') and,  *)
(* for an int, its number n                                               *)

Raised == [type |-> "raise", s |-> <<>>, n |-> 0]
DictResult(id) == [type |-> "dict", s |-> id, n |-> 0]
NoneResult == [type |-> "NoneType", s |-> <<>>, n |-> 0]
StrResult(text) == [type |-> "str", s |-> <<text>>, n |-> 0]
IntResult(i) == [type |-> "int", s |-> <<>>, n |-> i]

\* no create_pod call has been made
NotCreated == [outcome |-> [type |-> "none", s |-> <<>>, n |-> 0],
               pod_id |-> <<>>]

\* the dict of the pod the provider creates next
NewPod == DictResult(<<IdOf(nextId)>>)

\* a provider that keeps to its interface: the call raises, or returns a
\* dict without an id, or creates the pod and returns its dict
CreateOutcomes ==
    {Raised, DictResult(<<>>)}
       \cup (IF nextId <= MaxPods THEN {NewPod} ELSE {})

----------------------------------------------------------------------------
(* PodManager._find_pod_by_type *)

\* (None, None); the field pod is the listing entry the result was taken from
NoPod == [id |-> None, name |-> <<>>,
          owner |-> [project |-> <<>>, type |-> <<>>]]
NotFound == [id |-> None, url |-> None, pod |-> NoPod]

\* pod_id = pod.get('id'); if pod_id: the listing entry has an id, and it
\* is not the empty string
HasId(pod) == pod.id # None /\ pod.id # ""

RECURSIVE FirstMatch(_, _)
FirstMatch(listing, prefix) ==
    IF listing = <<>> THEN NotFound
    ELSE LET pod == Head(listing) IN
         IF StartsWith(pod.name, prefix) /\ HasId(pod)
         THEN [id |-> pod.id, url |-> pod.id \o PodUrlSuffix,
               pod |-> [id |-> pod.id, name |-> pod.name, owner |-> pod.owner]]
         ELSE FirstMatch(Tail(listing), prefix)

\* the last pod of the listing whose name starts with the prefix
RECURSIVE LastMatch(_, _)
LastMatch(listing, prefix) ==
    IF listing = <<>> THEN NotFound
    ELSE LET pod == listing[Len(listing)] IN
         IF StartsWith(pod.name, prefix) /\ HasId(pod)
         THEN [id |-> pod.id, url |-> pod.id \o PodUrlSuffix,
               pod |-> [id |-> pod.id, name |-> pod.name, owner |-> pod.owner]]
         ELSE LastMatch(SubSeq(listing, 1, Len(listing) - 1), prefix)

\* a discovery that returns the first pod whose name starts with the prefix,
\* whatever its id
FindWhateverId(outcome, proj, type) ==
    LET S == {i \in 1..Len(outcome.pods) :
                 StartsWith(outcome.pods[i].name,
                            get_pod_name_prefix(proj, type))} IN
    IF outcome.raised \/ S = {} THEN NotFound
    ELSE LET pod == outcome.pods[CHOOSE i \in S : \A j \in S : i <= j] IN
         [id |-> pod.id,
          url |-> IF pod.id = None THEN None ELSE pod.id \o PodUrlSuffix,
          pod |-> [id |-> pod.id, name |-> pod.name, owner |-> pod.owner]]

\* a discovery that returns the last match
FindLastMatch(outcome, proj, type) ==
    IF outcome.raised THEN NotFound
    ELSE LastMatch(outcome.pods, get_pod_name_prefix(proj, type))

\* a discovery that tells its caller of the failure
FindTellsFailure(outcome, proj, type) ==
    IF outcome.raised THEN [NotFound EXCEPT !.url = "Error"]
    ELSE FirstMatch(outcome.pods, get_pod_name_prefix(proj, type))

FindPodByType(outcome, proj, type) ==
    IF outcome.raised THEN NotFound
    ELSE FirstMatch(outcome.pods, get_pod_name_prefix(proj, type))

(* PodManager.get_pod_status *)

RECURSIVE StatusIn(_, _)
StatusIn(listing, id) ==
    IF listing = <<>> THEN "NOT_FOUND"
    ELSE IF Head(listing).id = id THEN Head(listing).status
    ELSE StatusIn(Tail(listing), id)

\* a lookup that takes a failed listing call for an empty listing
GetPodStatusNoError(outcome, id) == StatusIn(outcome.pods, id)

GetPodStatus(outcome, id) ==
    IF outcome.raised THEN "Error" ELSE StatusIn(outcome.pods, id)

----------------------------------------------------------------------------
(* Requests recorded in the log: the kind of provider call, what it was    *)
(* for, and whether it returned (ok) or raised                             *)

Req(kind, target, ok) == [k |-> kind, target |-> target, ok |-> ok]

Count(l, kind) == Cardinality({i \in 1..Len(l) : l[i].k = kind})

----------------------------------------------------------------------------
(* PodConfig (config.py).  A line of the config file, a key and a value    *)
(* are texts: sequences of tokens, where " " is white space, "#" and "="   *)
(* are themselves, and any other token is a run of other characters.       *)

\* line.strip()
RECURSIVE LStrip(_)
LStrip(s) == IF s # <<>> /\ Head(s) = " " THEN LStrip(Tail(s)) ELSE s

RECURSIVE RStrip(_)
RStrip(s) ==
    IF s # <<>> /\ s[Len(s)] = " " THEN RStrip(SubSeq(s, 1, Len(s) - 1))
    ELSE s

Strip(s) == RStrip(LStrip(s))

\* '=' in line
Contains(s, t) == \E i \in 1..Len(s) : s[i] = t

\* the position of the first t in s
IndexOf(s, t) ==
    CHOOSE i \in 1..Len(s) : s[i] = t /\ \A j \in 1..(i - 1) : s[j] # t

\* if line and not line.startswith('#') and '=' in line
IsEntry(line) == line # <<>> /\ Head(line) # "#" /\ Contains(line, "=")

\* a value taken after the last '=' of the line
EntryValueAfterLast(line) ==
    LET last == CHOOSE i \in 1..Len(line) :
                   line[i] = "=" /\ \A j \in (i + 1)..Len(line) : line[j] # "="
    IN  Strip(SubSeq(line, last + 1, Len(line)))

\* key, value = line.split('=', 1), both stripped
EntryKey(line) == Strip(SubSeq(line, 1, IndexOf(line, "=") - 1))
EntryValue(line) == Strip(SubSeq(line, IndexOf(line, "=") + 1, Len(line)))

\* a dict is a function from keys to values; {} is the empty one
EmptyDict == [k \in {} |-> <<>>]

\* config[key] = value
Put(c, k, v) == (k :> v) @@ c

\* config.setdefault(key, value)
SetDefault(c, k, v) == IF k \in DOMAIN c THEN c ELSE c @@ (k :> v)

\* an update that keeps the entries the dict has
UpdateKeepsOld(c, kwargs) == c @@ kwargs

\* config.update(kwargs)
Update(c, kwargs) == kwargs @@ c

\* PodConfig.get(key, default)
Get(c, k, default) == IF k \in DOMAIN c THEN c[k] ELSE default

\* for line in f: ...
RECURSIVE FromLines(_, _)
FromLines(lines, c) ==
    IF lines = <<>> THEN c
    ELSE LET line == Strip(Head(lines)) IN
         FromLines(Tail(lines),
                   IF IsEntry(line)
                   THEN Put(c, EntryKey(line), EntryValue(line))
                   ELSE c)

\* the config.setdefault calls of _load_config, in their order
Defaults ==
    << << <<"MAX_GPU_PRICE">>, <<"0.30">> >>,
       << <<"CONTAINER_DISK">>, <<"20">> >>,
       << <<"INACTIVITY_TIMEOUT_SECONDS">>, <<"3600">> >>,
       << <<"VOLUME_MOUNT_PATH">>, <<"/workspace">> >>,
       << <<"GPU_COUNT">>, <<"1">> >>,
       << <<"SUPPORT_PUBLIC_IP">>, <<"true">> >>,
       << <<"START_SSH">>, <<"true">> >> >>

RECURSIVE WithDefaults(_, _)
WithDefaults(c, defaults) ==
    IF defaults = <<>> THEN c
    ELSE WithDefaults(SetDefault(c, Head(defaults)[1], Head(defaults)[2]),
                      Tail(defaults))

\* no config_file argument, or no file at that path
NoFile == [exists |-> FALSE, lines |-> <<>>]

\* PodConfig._load_config(config_file, **kwargs)
LoadConfig(file, kwargs) ==
    LET fromFile == IF file.exists THEN FromLines(file.lines, EmptyDict)
                    ELSE EmptyDict
    IN  Update(WithDefaults(fromFile, Defaults), kwargs)

\* no api_key argument, RUNPOD_API_KEY not set
NoKey == ""

\* a PodConfig that prefers the environment
ApiKeyEnvFirst(arg, env) == IF env # NoKey THEN env ELSE arg

\* api_key or self._get_api_key(), when it does not raise
ApiKey(arg, env) == IF arg # NoKey THEN arg ELSE env

\* _get_api_key raises ValueError
KeyMissing(arg, env) == arg = NoKey /\ env = NoKey

\* float(value), in cents per hour
Cents(value) ==
    CASE value = <<"0.30">> -> MaxGpuPrice
      [] value = <<"0.50">> -> 50
      [] value = <<"1.00">> -> 100

\* max_price = float(self.config.get('MAX_GPU_PRICE', '0.30'))
MaxPrice(c) == Cents(Get(c, <<"MAX_GPU_PRICE">>, <<"0.30">>))

----------------------------------------------------------------------------
(* Calls and returns between the functions of the manager *)

\* a mistaken exit code
ExitCodeZero(success) == 0

\* sys.exit(0 if success else 1)
ExitCode(success) == IF success THEN 0 ELSE 1

(* What is printed when verbose is False: the print calls, and the _print *)
(* calls with force=True.  A line is written as the fixed part of its     *)
(* text.                                                                  *)

\* a message that _print is forced to print
ErrorLine == "ERROR"

\* print(pod_id)
PodIdLine == "<pod id>"

\* the text of a sequence of pieces
RECURSIVE Text(_)
Text(seq) == IF seq = <<>> THEN "" ELSE Head(seq) \o Text(Tail(seq))

\* status_pod: 'https://' + pod_url if pod_url and not
\* pod_url.startswith('http') else pod_url
StatusUrl(url) ==
    IF url # None /\ ~StartsWith(url, "http") THEN "https://" \o url
    ELSE url

\* the print calls of status_pod before and after get_pod_status
StatusBlockHead(type, id, url) ==
    <<"POD_TYPE=" \o Text(type), "POD_ID=" \o id, "POD_URL=" \o url>>
StatusBlockTail(st) == <<"POD_STATUS=" \o st>>

\* _find_pod_by_type: the message of its except clause
FindLines(outcome) == IF outcome.raised THEN <<ErrorLine>> ELSE <<>>

\* get_pod_status: the messages of its two failures
StatusLines(st) ==
    IF st \in {"NOT_FOUND", "Error"} THEN <<ErrorLine>> ELSE <<>>

\* restart_pod: the message when stop_pod has failed; pc' is "idle" with a
\* waiting restart_pod only then
RestartLines ==
    IF caller = "restart" /\ pc' = "idle" THEN <<ErrorLine>> ELSE <<>>

\* the step prints these lines; to be stated after the step's pc'
Emit(lines) == out' = out \o lines \o RestartLines

\* pc, fn, caller and result are left as they are
Stay == UNCHANGED <<pc, fn, caller, result, exitCode>>

\* go on within the running function
Goto(label) ==
    /\ pc' = label
    /\ UNCHANGED <<fn, caller, result, exitCode>>

\* a restart_pod that starts whatever stop_pod returned
RestartIgnoresStop(r) == TRUE

\* restart_pod: if not self.stop_pod(pod_type): return False
RestartGoesOn(r) == r

\* a start_pod that deploys only when the terminate has succeeded
DeployIfTerminated(r) == r

\* start_pod, except clause: self.terminate_pod(pod_type) is a statement of
\* its own, whatever it returns the deploy comes next
DeployAfterTerminate(r) == TRUE

\* the running function returns r to its caller
Return(r) ==
    CASE caller = "none" ->
            \* cli.main: the operation has returned
            /\ pc' = "idle"
            /\ result' = r
            /\ exitCode' = <<ExitCode(r)>>
            /\ UNCHANGED <<fn, caller>>
      [] caller = "restart" ->
            \* restart_pod: if not self.stop_pod(pod_type): return False
            \*              return self.start_pod(pod_type, ...)
            /\ caller' = "none"
            /\ IF RestartGoesOn(r)
                    THEN /\ pc' = "start_find" /\ fn' = "start_pod"
                         /\ UNCHANGED <<result, exitCode>>
                    ELSE /\ pc' = "idle" /\ fn' = fn /\ result' = FALSE
                         /\ exitCode' = <<ExitCode(FALSE)>>
      [] caller = "start_exc" ->
            \* start_pod: self.terminate_pod(pod_type)
            \*            return self.deploy_pod(pod_type)
            /\ caller' = "none"
            /\ IF DeployAfterTerminate(r)
                    THEN /\ pc' = "deploy_query" /\ fn' = "deploy_pod"
                         /\ UNCHANGED <<result, exitCode>>
                    ELSE /\ pc' = "idle" /\ fn' = fn /\ result' = FALSE
                         /\ exitCode' = <<ExitCode(FALSE)>>

\* an exception that leaves the running function and every caller
Propagated(r) ==
    /\ pc' = "raised"
    /\ UNCHANGED <<fn, caller, result, exitCode>>

\* except Exception as e: ... return r
Caught(r) == Return(r)

\* start_pod: return self.deploy_pod(pod_type)
CallDeploy ==
    /\ pc' = "deploy_query"
    /\ fn' = "deploy_pod"
    /\ UNCHANGED <<caller, result, exitCode>>

----------------------------------------------------------------------------

\* no operation has been invoked
IdleLocals ==
    /\ project = <<"a">>
    /\ podType = <<"m">>
    /\ op = "none"
    /\ flag = FALSE
    /\ pc = "idle"
    /\ fn = "none"
    /\ caller = "none"
    /\ found = NotFound
    /\ podId = None
    /\ termId = None
    /\ current_status = None
    /\ polled = None
    /\ elapsed = 0
    /\ detailed = <<>>
    /\ affordable = <<>>
    /\ idx = 0
    /\ podParams = EmptyDict
    /\ created = NotCreated
    /\ podName = <<>>
    /\ log = <<>>
    /\ result = FALSE
    /\ exitCode = <<>>
    /\ out = <<>>
    /\ listed = NoListing
    /\ rival = NoRival
    /\ timeout = WaitTimeout

\* no pod exists and no operation has been invoked
IdleManager ==
    /\ pods = {}
    /\ nextId = 1
    /\ IdleLocals

Idle ==
    /\ IdleManager
    /\ keyArg = NoKey
    /\ keyEnv = NoKey
    /\ apiKey = NoKey
    /\ cfgFile = NoFile
    /\ cfgArgs = EmptyDict
    /\ config = EmptyDict
    /\ cfgPc = "none"

Init ==
    /\ Idle
    /\ market = DefaultMarket

\* cli.main: the method called for each action, and its first step
EntryFn(a) ==
    CASE a = "start" -> "start_pod"
      [] a = "stop" -> "stop_pod"
      [] a = "restart" -> "stop_pod"
      [] a = "status" -> "status_pod"
      [] a = "deploy" -> "deploy_pod"
      [] a = "terminate" -> "terminate_pod"

EntryPc(a) ==
    CASE a = "start" -> "start_find"
      [] a = "stop" -> "stop_find"
      [] a = "restart" -> "stop_find"
      [] a = "status" -> "status_find"
      [] a = "deploy" -> "deploy_query"
      [] a = "terminate" -> "term_find"

\* the values RUNPOD_API_KEY may have when cli.main runs
EnvKeys == {NoKey, "env-key"}

\* the locals of the operations, as they are before an operation runs
FreshLocals ==
    /\ found' = NotFound
    /\ podId' = None
    /\ termId' = None
    /\ current_status' = None
    /\ polled' = None
    /\ elapsed' = 0
    /\ detailed' = <<>>
    /\ affordable' = <<>>
    /\ idx' = 0
    /\ podParams' = EmptyDict
    /\ created' = NotCreated
    /\ podName' = <<>>
    /\ log' = <<>>
    /\ result' = FALSE

\* cli.main with arguments: the PodConfig is constructed from the project
\* name alone, then the PodManager, and one of the operations is invoked;
\* a ValueError of the PodConfig ends main with exit code 1
InvokeOneOf(acts) ==
    /\ pc = "idle"
    /\ \E proj \in Projects, type \in TypeArgs, a \in acts, f \in BOOLEAN,
          env \in EnvKeys :
          /\ ParseAccepts(type, a)
          /\ (f => a \in {"start", "restart"})
          \* without a key the arguments play no part
          /\ (env = NoKey => proj = <<"a">> /\ ~f)
          /\ project' = proj
          /\ podType' = type
          /\ op' = a
          /\ flag' = f
          /\ keyArg' = NoKey
          /\ keyEnv' = env
          /\ apiKey' = ApiKey(NoKey, env)
          /\ cfgFile' = NoFile
          /\ cfgArgs' = EmptyDict
          /\ IF KeyMissing(NoKey, env)
             THEN /\ cfgPc' = "error"
                  /\ config' = EmptyDict
                  /\ pc' = "idle"
                  /\ fn' = "none"
                  /\ caller' = "none"
                  /\ exitCode' = <<1>>
                  /\ out' = <<ErrorLine>>
             ELSE IF a \notin Actions
             THEN \* no branch of the dispatch is taken: success is unbound
                  /\ cfgPc' = "ready"
                  /\ config' = LoadConfig(NoFile, EmptyDict)
                  /\ pc' = "idle"
                  /\ fn' = "none"
                  /\ caller' = "none"
                  /\ exitCode' = <<1>>
                  /\ out' = <<ErrorLine>>
             ELSE /\ cfgPc' = "ready"
                  /\ config' = LoadConfig(NoFile, EmptyDict)
                  /\ pc' = EntryPc(a)
                  /\ fn' = EntryFn(a)
                  /\ caller' = IF a = "restart" THEN "restart" ELSE "none"
                  /\ exitCode' = <<>>
                  /\ out' = <<>>
    /\ FreshLocals
    /\ UNCHANGED <<provider, aside>>

\* cli.main without arguments: the help is printed, exit code 1
Help ==
    /\ pc = "idle"
    /\ op' = "help"
    /\ fn' = "none"
    /\ exitCode' = <<1>>
    /\ out' = <<"usage:">>
    /\ FreshLocals
    /\ UNCHANGED <<provider, project, podType, flag, pc, caller, setup,
                   aside>>

\* cli.main with an argument that parse_args refuses: argparse prints the
\* usage on stderr and exits with status 2
Reject ==
    /\ pc = "idle"
    /\ (\E type \in TypeArgs, a \in ActionArgs : ~ParseAccepts(type, a)) = TRUE
    /\ op' = "rejected"
    /\ fn' = "none"
    /\ exitCode' = <<2>>
    /\ out' = <<>>
    /\ keyArg' = NoKey
    /\ keyEnv' = keyEnv
    /\ apiKey' = NoKey
    /\ cfgFile' = NoFile
    /\ cfgArgs' = EmptyDict
    /\ config' = EmptyDict
    /\ cfgPc' = "none"
    /\ FreshLocals
    /\ UNCHANGED <<provider, project, podType, flag, pc, caller, aside>>

Invoke == InvokeOneOf(ActionArgs)

----------------------------------------------------------------------------
(* PodManager.terminate_pod *)

\* a terminate_pod that succeeds when there is no pod
TermAbsentSucceeds == TRUE

\* if not pod_id: return False
TermAbsentResult == FALSE

TermFind ==
    /\ pc = "term_find"
    /\ UNCHANGED <<setup, aside>>
    /\ \E o \in GetPodsOutcomes :
          LET r == FindPodByType(o, project, podType) IN
          /\ found' = r
          /\ termId' = r.id
          /\ IF r.id = None THEN Return(TermAbsentResult)
                            ELSE Goto("term_call")
          /\ Emit(FindLines(o))
    /\ UNCHANGED <<provider, invocation, deployLocals, podId, current_status,
                   polled, elapsed, log>>

\* a terminate_pod that reports success when the call raised
TermReportsSuccess(returned) == TRUE

\* return True after the call, return False in the except clause
TermCallResult(returned) == returned

TermCall ==
    /\ pc = "term_call"
    /\ UNCHANGED <<setup, aside>>
    /\ \/ \* runpod.terminate_pod raises
          /\ log' = Append(log, Req("terminate", termId, FALSE))
          /\ Caught(TermCallResult(FALSE))
          /\ Emit(<<ErrorLine>>)
          /\ pods' = pods
       \/ \* it returns: the pod is deleted, at once or not yet
          /\ log' = Append(log, Req("terminate", termId, TRUE))
          /\ Return(TermCallResult(TRUE))
          /\ Emit(<<"TERMINATED">>)
          /\ pods' \in {{p \in pods : p.id # termId}, pods}
    /\ UNCHANGED <<nextId, market, invocation, deployLocals, found, podId,
                   termId, current_status, polled, elapsed>>

----------------------------------------------------------------------------
(* PodManager.status_pod *)

StatusFind ==
    /\ pc = "status_find"
    /\ UNCHANGED <<setup, aside>>
    /\ \E o \in GetPodsOutcomes :
          LET r == FindPodByType(o, project, podType) IN
          /\ found' = r
          /\ podId' = r.id
          /\ IF r.id = None THEN Return(FALSE) ELSE Goto("status_get")
          /\ Emit(FindLines(o))
    /\ current_status' = None
    /\ UNCHANGED <<provider, invocation, deployLocals, termId, polled,
                   elapsed, log>>

StatusGet ==
    /\ pc = "status_get"
    /\ UNCHANGED <<setup, aside>>
    /\ \E o \in GetPodsOutcomes : current_status' = GetPodStatus(o, podId)
    /\ Return(TRUE)
    /\ Emit(StatusBlockHead(podType, podId, StatusUrl(found.url))
               \o StatusLines(current_status')
               \o StatusBlockTail(current_status'))
    /\ UNCHANGED <<provider, invocation, deployLocals, found, podId, termId,
                   polled, elapsed, log>>

----------------------------------------------------------------------------
(* PodManager.wait_for_status, as called by start_pod and stop_pod *)

\* the positions of its loop: called by start_pod, by stop_pod, and by a
\* client of the manager
WaitPositions == {"start_wait", "stop_wait", "wait"}

\* the instants at which the clock is read
ClockSamples == {0, PollInterval, timeout - PollInterval, timeout}

\* a loop whose guard never fails
TimedOutNever == FALSE

\* while time.time() - start_time < timeout: the guard fails
TimedOut == elapsed >= timeout

\* target_statuses
WaitTargets ==
    IF pc \in {"start_wait", "wait"} THEN {"RUNNING"}
    ELSE {"EXITED", "STOPPED"}

\* a start_pod that deploys whatever deploy_new_if_needed is
FallbackAlwaysDeploy == CallDeploy

\* a start_pod that issues the resume request again
FallbackRetryResume == Goto("start_resume")

\* a start_pod that terminates the pod before every deploy
FallbackTerminatesFirst ==
    IF flag
    THEN /\ pc' = "term_find"
         /\ fn' = "terminate_pod"
         /\ caller' = "start_exc"
         /\ UNCHANGED <<result, exitCode>>
    ELSE Return(FALSE)

\* if deploy_new_if_needed: return self.deploy_pod(pod_type)
\* else: return False
Fallback == IF flag THEN CallDeploy ELSE Return(FALSE)

\* what the caller of wait_for_status does with its result b
WaitReturn(b) ==
    IF pc = "start_wait"
    THEN IF b THEN Return(TRUE)
         ELSE Fallback
    ELSE IF pc = "stop_wait"
    THEN IF b THEN Goto("stop_final")
         ELSE Return(FALSE)
    ELSE \* the client has the result
         /\ pc' = "idle"
         /\ result' = b
         /\ UNCHANGED <<fn, caller, exitCode>>

\* what the caller of wait_for_status prints on its result b
WaitLines(b) ==
    IF pc = "start_wait"
    THEN IF b THEN <<"RUNNING">> ELSE <<ErrorLine>>
    ELSE IF pc = "stop_wait"
    THEN IF b THEN <<>> ELSE <<ErrorLine>>
    ELSE <<>>

\* a wait that goes on polling when the pod is gone
WaitOutcomeKeepsPolling(st, targets) ==
    IF st \in targets THEN "return_true" ELSE "sleep"

\* what one iteration does with the status it polled
WaitOutcome(st, targets) ==
    IF st \in targets THEN "return_true"
    ELSE IF st \in {"Error", "NOT_FOUND"} THEN "return_false"
    ELSE "sleep"

\* one iteration of the loop: the guard, get_pod_status and the sleep
WaitPoll ==
    /\ pc \in WaitPositions
    /\ UNCHANGED <<setup, listed, rival>>
    /\ ~TimedOut
    /\ \E o \in GetPodsOutcomes :
          LET st == GetPodStatus(o, podId) IN
          /\ polled' = st
          /\ CASE WaitOutcome(st, WaitTargets) = "return_true" ->
                     /\ WaitReturn(TRUE) /\ elapsed' = 0
                     /\ timeout' = WaitTimeout
                     /\ Emit(StatusLines(st) \o WaitLines(TRUE))
               [] WaitOutcome(st, WaitTargets) = "return_false" ->
                     /\ WaitReturn(FALSE) /\ elapsed' = 0
                     /\ timeout' = WaitTimeout
                     /\ Emit(StatusLines(st) \o WaitLines(FALSE))
               [] WaitOutcome(st, WaitTargets) = "sleep" ->
                     /\ \E t \in ClockSamples :
                           /\ t >= elapsed + PollInterval
                           /\ elapsed' = t
                     /\ Stay
                     /\ timeout' = timeout
                     /\ Emit(StatusLines(st))
    /\ UNCHANGED <<provider, invocation, deployLocals, found, podId, termId,
                   current_status, log>>

\* the guard of the loop fails: return False
WaitExpire ==
    /\ pc \in WaitPositions
    /\ UNCHANGED <<setup, listed, rival>>
    /\ TimedOut
    /\ timeout' = WaitTimeout
    /\ WaitReturn(FALSE)
    /\ Emit(WaitLines(FALSE))
    /\ elapsed' = 0
    /\ UNCHANGED <<provider, invocation, deployLocals, found, podId, termId,
                   current_status, polled, log>>

----------------------------------------------------------------------------
(* PodManager.stop_pod *)

\* a stop_pod that fails when there is no pod
StopAbsentFails == FALSE

\* if not pod_id: return True
StopAbsentResult == TRUE

\* a stop_pod that issues the stop request unless the pod is stopped
StopNextUnlessStopped(st) ==
    IF st \in {"EXITED", "STOPPED"} THEN "return_true" ELSE "stop"

\* what stop_pod does once it has the pod's status
StopNext(st) ==
    IF st \in {"EXITED", "STOPPED"} THEN "return_true"
    ELSE IF st \in {"NOT_FOUND", "Error"} THEN "return_false"
    ELSE "stop"

StopFind ==
    /\ pc = "stop_find"
    /\ UNCHANGED <<setup, aside>>
    /\ \E o \in GetPodsOutcomes :
          LET r == FindPodByType(o, project, podType) IN
          /\ found' = r
          /\ podId' = r.id
          /\ IF r.id = None THEN Return(StopAbsentResult)
                            ELSE Goto("stop_status")
          /\ Emit(FindLines(o))
    /\ current_status' = None
    /\ polled' = None
    /\ UNCHANGED <<provider, invocation, deployLocals, termId, elapsed, log>>

StopStatus ==
    /\ pc = "stop_status"
    /\ UNCHANGED <<setup, aside>>
    /\ \E o \in GetPodsOutcomes :
          LET st == GetPodStatus(o, podId) IN
          /\ current_status' = st
          /\ CASE StopNext(st) = "return_true" ->
                     Return(TRUE) /\ Emit(<<st>>)
               [] StopNext(st) = "return_false" ->
                     Return(FALSE) /\ Emit(StatusLines(st) \o <<ErrorLine>>)
               [] StopNext(st) = "stop" ->
                     Goto("stop_call") /\ Emit(StatusLines(st))
    /\ UNCHANGED <<provider, invocation, deployLocals, found, podId, termId,
                   polled, elapsed, log>>

StopCall ==
    /\ pc = "stop_call"
    /\ UNCHANGED <<setup, listed, rival>>
    /\ \/ \* runpod.stop_pod raises
          /\ log' = Append(log, Req("stop", podId, FALSE))
          /\ Caught(FALSE)
          /\ Emit(<<ErrorLine>>)
          /\ UNCHANGED <<pods, elapsed, timeout>>
       \/ \* it returns: the pod's desired status is EXITED
          /\ log' = Append(log, Req("stop", podId, TRUE))
          /\ pods' = {IF p.id = podId THEN [p EXCEPT !.status = "EXITED"]
                      ELSE p : p \in pods}
          /\ Goto("stop_wait")
          /\ timeout' = WaitTimeout
          /\ elapsed' = 0
          /\ out' = out
    /\ UNCHANGED <<nextId, market, invocation, deployLocals, found, podId,
                   termId, current_status, polled>>

\* final_status = self.get_pod_status(pod_id), printed; return True
StopFinal ==
    /\ pc = "stop_final"
    /\ UNCHANGED <<setup, aside>>
    /\ Return(TRUE)
    /\ \E o \in GetPodsOutcomes :
          LET final_status == GetPodStatus(o, podId) IN
          Emit(StatusLines(final_status) \o <<final_status>>)
    /\ UNCHANGED <<provider, invocation, deployLocals, found, podId, termId,
                   current_status, polled, elapsed, log>>

----------------------------------------------------------------------------
(* PodManager.start_pod *)

\* a start_pod that resumes a pod that is running
StartNextResumeRunning(st) ==
    IF st \in {"NOT_FOUND", "Error"} THEN "fallback" ELSE "resume"

\* a start_pod that never resumes
StartNextNoResume(st) ==
    IF st = "RUNNING" THEN "return_true" ELSE "fallback"

\* what start_pod does once it has the pod's status
StartNext(st) ==
    IF st = "RUNNING" THEN "return_true"
    ELSE IF st \in {"NOT_FOUND", "Error"} THEN "fallback"
    ELSE "resume"

StartFind ==
    /\ pc = "start_find"
    /\ UNCHANGED <<setup, aside>>
    /\ \E o \in GetPodsOutcomes :
          LET r == FindPodByType(o, project, podType) IN
          /\ found' = r
          /\ podId' = r.id
          /\ IF r.id = None THEN Fallback ELSE Goto("start_status")
          /\ Emit(FindLines(o))
    /\ current_status' = None
    /\ polled' = None
    /\ UNCHANGED <<provider, invocation, deployLocals, termId, elapsed, log>>

StartStatus ==
    /\ pc = "start_status"
    /\ UNCHANGED <<setup, aside>>
    /\ \E o \in GetPodsOutcomes :
          LET st == GetPodStatus(o, podId) IN
          /\ current_status' = st
          /\ CASE StartNext(st) = "return_true" ->
                     Return(TRUE) /\ Emit(<<"RUNNING">>)
               [] StartNext(st) = "fallback" ->
                     /\ Fallback
                     /\ Emit(StatusLines(st)
                                \o IF flag THEN <<>> ELSE <<ErrorLine>>)
               [] StartNext(st) = "resume" ->
                     Goto("start_resume") /\ Emit(<<>>)
    /\ UNCHANGED <<provider, invocation, deployLocals, found, podId, termId,
                   polled, elapsed, log>>

StartResume ==
    /\ pc = "start_resume"
    /\ UNCHANGED <<setup, listed, rival>>
    /\ \/ \* runpod.resume_pod raises
          /\ log' = Append(log, Req("resume", podId, FALSE))
          /\ IF flag
             THEN \* self.terminate_pod(pod_type), then the deploy
                  /\ pc' = "term_find"
                  /\ fn' = "terminate_pod"
                  /\ caller' = "start_exc"
                  /\ UNCHANGED <<result, exitCode>>
             ELSE Caught(FALSE)
          /\ Emit(<<ErrorLine>>)
          /\ UNCHANGED <<pods, elapsed, timeout>>
       \/ \* it returns: the pod's desired status is RUNNING
          /\ log' = Append(log, Req("resume", podId, TRUE))
          /\ pods' = {IF p.id = podId THEN [p EXCEPT !.status = "RUNNING"]
                      ELSE p : p \in pods}
          /\ Goto("start_wait")
          /\ timeout' = WaitTimeout
          /\ elapsed' = 0
          /\ out' = out
    /\ UNCHANGED <<nextId, market, invocation, deployLocals, found, podId,
                   termId, current_status, polled>>

----------------------------------------------------------------------------
(* PodManager.deploy_pod *)

\* a deploy_pod that takes a GPU whose lookup failed to cost nothing
DetailFreeOnFailure(i, raised) ==
    IF raised THEN [id |-> GpuId(i), community |-> <<0>>, secure |-> NoPrice]
    ELSE [id |-> GpuId(i), community |-> market[i].community,
          secure |-> market[i].secure]

\* one entry of detailed_gpus: gpu_detailed, or the priceless gpu_basic when
\* runpod.get_gpu raised
Detail(i, raised) ==
    IF raised THEN [id |-> GpuId(i), community |-> NoPrice, secure |-> NoPrice]
    ELSE [id |-> GpuId(i), community |-> market[i].community,
          secure |-> market[i].secure]

\* a filter that takes the cheaper of the two prices
MinPriceCheapest(gpu) ==
    IF gpu.community # NoPrice /\ gpu.secure # NoPrice
    THEN IF gpu.secure[1] < gpu.community[1] THEN gpu.secure
         ELSE gpu.community
    ELSE IF gpu.community # NoPrice THEN gpu.community
    ELSE gpu.secure

\* min_price of the filter loop
MinPrice(gpu) ==
    IF gpu.community # NoPrice THEN gpu.community
    ELSE IF gpu.secure # NoPrice THEN gpu.secure
    ELSE NoPrice

\* a filter without the price ceiling
IsAffordableNoCeiling(gpu, max_price) == MinPrice(gpu) # NoPrice

\* min_price is not None and min_price <= max_price
IsAffordable(gpu, max_price) ==
    MinPrice(gpu) # NoPrice /\ MinPrice(gpu)[1] <= max_price

RECURSIVE AffordableGpus(_, _)
AffordableGpus(gpus, max_price) ==
    IF gpus = <<>> THEN <<>>
    ELSE LET gpu == Head(gpus)
             rest == AffordableGpus(Tail(gpus), max_price) IN
         IF IsAffordable(gpu, max_price)
         THEN <<[id |-> gpu.id, price |-> MinPrice(gpu)[1],
                 community_spot |-> gpu.community,
                 secure_spot |-> gpu.secure]>> \o rest
         ELSE rest

\* list.sort(key=price): ascending and stable
RECURSIVE InsertByPrice(_, _)
InsertByPrice(x, s) ==
    IF s = <<>> THEN <<x>>
    ELSE IF Head(s).price <= x.price
         THEN <<Head(s)>> \o InsertByPrice(x, Tail(s))
         ELSE <<x>> \o s

RECURSIVE SortedByPrice(_)
SortedByPrice(s) ==
    IF s = <<>> THEN <<>>
    ELSE InsertByPrice(s[Len(s)], SortedByPrice(SubSeq(s, 1, Len(s) - 1)))

\* a deploy_pod that does not sort
Unsorted(s) == s

\* a deploy_pod that has no candidate when a pod of the type exists
SortUnlessPodExists(s) ==
    IF \E p \in pods :
          StartsWith(p.name, get_pod_name_prefix(project, podType))
    THEN <<>>
    ELSE SortedByPrice(s)

\* affordable_gpus.sort(key=lambda x: x['price'])
SortByPrice(s) == SortedByPrice(s)

\* a creation loop that gives up after a failed attempt
HasNextNever(i, candidates) == FALSE

\* for i, selected_gpu in enumerate(affordable_gpus): is there a next one
HasNext(i, candidates) == i < Len(candidates)

\* the lines of the table of GPUs, for the lookups that returned
TableHead == <<"", "=== Available GPUs with Spot Prices ===", "====">>
GpuLines == <<"name", "ID:", "Community Spot:", "Secure Spot:", "">>
TableFoot == <<"====", "", "Filtering GPUs under">>

RECURSIVE GpuTable(_, _)
GpuTable(raised, i) ==
    IF i > Len(raised) THEN <<>>
    ELSE (IF raised[i] THEN <<>> ELSE GpuLines) \o GpuTable(raised, i + 1)

\* print('Error: ' + error_msg)
CreateErrorLine == "Error: "

\* an image name that always gets the pod type as its tag
ImageNameAlwaysTagged(c, type) ==
    LET image_name_base == Get(c, <<"IMAGE_NAME_BASE">>, <<>>) IN
    IF image_name_base # <<>>
    THEN image_name_base \o <<":">> \o type
    ELSE <<"runpod/pytorch", ":", "latest">>

\* image_name; ":" is a token of a text, and None is the empty text
ImageName(c, type) ==
    LET image_name_base == Get(c, <<"IMAGE_NAME_BASE">>, <<>>) IN
    IF image_name_base # <<>>
    THEN IF Contains(image_name_base, ":") THEN image_name_base
         ELSE image_name_base \o <<":">> \o type
    ELSE <<"runpod/pytorch", ":", "latest">>

\* pod_params: the name, the GPU type, the image and the optional keyword
\* arguments of create_pod (the other arguments are fixed by the
\* configuration and left out)
PodParams(c, type, name, gpu) ==
    ("name" :> name) @@ ("gpu_type_id" :> <<gpu>>)
       @@ ("image_name" :> ImageName(c, type))
       @@ (IF Get(c, <<"TEMPLATE_ID">>, <<>>) # <<>>
           THEN "template_id" :> Get(c, <<"TEMPLATE_ID">>, <<>>)
           ELSE EmptyDict)
       @@ (IF Get(c, <<"NETWORK_VOLUME_ID">>, <<>>) # <<>>
           THEN ("network_volume_id" :> Get(c, <<"NETWORK_VOLUME_ID">>, <<>>))
                @@ ("volume_mount_path"
                       :> Get(c, <<"VOLUME_MOUNT_PATH">>, <<"/workspace">>))
           ELSE EmptyDict)

\* str(result)
Str(value) ==
    CASE value.type = "NoneType" -> "None"
      [] value.type = "str" -> value.s[1]
      [] value.type = "int" -> Text(FormatInt(value.n))

\* a deploy_pod that takes only a dict for a created pod
PodIdOfDict(value) == IF value.type = "dict" THEN value.s ELSE <<>>

\* pod_id = result.get('id') if isinstance(result, dict) else str(result)
PodId(value) == IF value.type = "dict" THEN value.s ELSE <<Str(value)>>

\* if pod_id: neither None nor the empty string
Truthy(pod_id) == pod_id # <<>> /\ pod_id[1] # ""

\* get_gpus, the get_gpu lookups, the filter, the sort and the pod name
DeployQuery ==
    /\ pc = "deploy_query"
    /\ UNCHANGED <<setup, aside>>
    /\ \/ \* runpod.get_gpus raises: the outer handler returns False
          /\ Caught(FALSE)
          /\ Emit(<<ErrorLine>>)
          /\ UNCHANGED deployLocals
       \/ \E f \in [1..Len(market) -> BOOLEAN] :
          \E ts \in Stamps :
             LET det == [i \in 1..Len(market) |-> Detail(i, f[i])]
                 aff == SortByPrice(AffordableGpus(det, MaxPrice(config))) IN
             /\ detailed' = det
             /\ affordable' = aff
             /\ podParams' = podParams
             /\ created' = created
             /\ IF aff = <<>>
                THEN /\ Return(FALSE)
                     /\ UNCHANGED <<idx, podName>>
                ELSE /\ Goto("deploy_create")
                     /\ idx' = 1
                     /\ podName' = get_pod_name(project, podType, ts)
             /\ Emit(TableHead \o GpuTable(f, 1) \o TableFoot
                        \o IF aff = <<>> THEN <<ErrorLine>> ELSE <<>>)
    /\ UNCHANGED <<provider, invocation, found, podId, termId,
                   current_status, polled, elapsed, log>>

\* one iteration of the creation loop, with a create_pod that raises or
\* returns one of the outcomes
CreateAttempt(outcomes) ==
    /\ pc = "deploy_create"
    /\ UNCHANGED <<setup, aside>>
    /\ podParams' = PodParams(config, podType, podName, affordable[idx].id)
    /\ \E o \in outcomes :
          LET pod_id == IF o = Raised THEN <<>> ELSE PodId(o) IN
          /\ created' = [outcome |-> o, pod_id |-> pod_id]
          /\ IF o # Raised /\ Truthy(pod_id)
             THEN \* if pod_id: ... return True
                  /\ log' = Append(log, Req("create", affordable[idx].id,
                                            TRUE))
                  /\ IF o = NewPod
                     THEN \* the provider has created the pod
                          /\ pods' = pods \cup
                                {[id |-> IdOf(nextId), name |-> podName,
                                  status |-> "RUNNING",
                                  owner |-> [project |-> project,
                                             type |-> podType]]}
                          /\ nextId' = nextId + 1
                     ELSE UNCHANGED <<pods, nextId>>
                  /\ Return(TRUE)
                  /\ idx' = idx
                  /\ Emit(<<PodIdLine>>)
             ELSE \* it raised, or returned no id: continue with the next GPU
                  /\ log' = Append(log, Req("create", affordable[idx].id,
                                            FALSE))
                  /\ IF HasNext(idx, affordable)
                     THEN idx' = idx + 1 /\ Stay
                     ELSE Return(FALSE) /\ idx' = idx
                  /\ Emit((IF o = Raised THEN <<CreateErrorLine>> ELSE <<>>)
                            \o IF HasNext(idx, affordable) THEN <<>>
                               ELSE <<ErrorLine>>)
                  /\ UNCHANGED <<pods, nextId>>
    /\ UNCHANGED <<market, invocation, found, podId, termId, current_status,
                   polled, elapsed, detailed, affordable, podName>>

\* one iteration of the creation loop
DeployCreate == CreateAttempt(CreateOutcomes)

----------------------------------------------------------------------------
(* The provider and its other users change the pods at any time.  A change *)
(* is seen by the manager at its next call about pods, so the changes are  *)
(* taken at the positions where such a call comes next.                    *)

PodSteps == {"term_find", "term_call", "status_find", "status_get",
             "start_find", "start_status", "start_resume", "start_wait",
             "stop_find", "stop_status", "stop_call", "stop_wait", "wait"}

EnvStatus ==
    /\ pc \in PodSteps
    /\ UNCHANGED <<setup, aside>>
    /\ \E p \in pods, s \in Statuses :
          /\ s # p.status
          /\ pods' = (pods \ {p}) \cup {[p EXCEPT !.status = s]}
    /\ UNCHANGED <<nextId, market, invocation, deployLocals, pc, fn, caller,
                   found, podId, termId, current_status, polled, elapsed,
                   log, result, exitCode, out>>

EnvRemove ==
    /\ pc \in PodSteps
    /\ UNCHANGED <<setup, aside>>
    /\ \E p \in pods : pods' = pods \ {p}
    /\ UNCHANGED <<nextId, market, invocation, deployLocals, pc, fn, caller,
                   found, podId, termId, current_status, polled, elapsed,
                   log, result, exitCode, out>>

----------------------------------------------------------------------------
(* The lifecycle: any operation, one market *)

Next ==
    \/ Invoke
    \/ Help
    \/ Reject
    \/ TermFind
    \/ TermCall
    \/ StatusFind
    \/ StatusGet
    \/ WaitPoll
    \/ WaitExpire
    \/ StopFind
    \/ StopStatus
    \/ StopCall
    \/ StopFinal
    \/ StartFind
    \/ StartStatus
    \/ StartResume
    \/ DeployQuery
    \/ DeployCreate
    \/ EnvStatus
    \/ EnvRemove

Spec == Init /\ [][Next]_vars

\* a step of the running operation
Step ==
    \/ TermFind \/ TermCall
    \/ StatusFind \/ StatusGet
    \/ WaitPoll \/ WaitExpire
    \/ StopFind \/ StopStatus \/ StopCall \/ StopFinal
    \/ StartFind \/ StartStatus \/ StartResume
    \/ DeployQuery \/ DeployCreate

(* the lifecycle operations over a market with two candidates *)
InitCheap ==
    /\ Idle
    /\ market = CheapMarket

SpecCheap == InitCheap /\ [][Next]_vars

(* The lifecycle, and a client of the manager that calls wait_for_status *)
(* with a timeout of its own, while the provider holds a pod or none and *)
(* has one more pod to give                                              *)

\* the timeout arguments of the client
Timeouts == {0 - PollInterval, 0, PollInterval}

InitLive ==
    /\ IdleLocals
    /\ market = DefaultMarket
    /\ nextId = MaxPods
    /\ \E held \in BOOLEAN :
          /\ pods = IF held
                    THEN {[id |-> IdOf(MaxPods - 1),
                           name |-> get_pod_name(<<"a">>, <<"m">>, Epoch),
                           status |-> "RUNNING",
                           owner |-> [project |-> <<"a">>, type |-> <<"m">>]]}
                    ELSE {}
    /\ keyArg = NoKey
    /\ keyEnv = NoKey
    /\ apiKey = NoKey
    /\ cfgFile = NoFile
    /\ cfgArgs = EmptyDict
    /\ config = EmptyDict
    /\ cfgPc = "none"

\* self.wait_for_status(pod_id, ["RUNNING"], timeout)
WaitCall ==
    /\ pc = "idle"
    /\ op = "none"
    /\ op' = "wait"
    /\ fn' = "wait_for_status"
    /\ pc' = "wait"
    /\ \E id \in {IdOf(n) : n \in 1..MaxPods}, t \in Timeouts :
          /\ podId' = id
          /\ timeout' = t
    /\ elapsed' = 0
    /\ polled' = None
    /\ UNCHANGED <<provider, project, podType, flag, caller, found, termId,
                   current_status, deployLocals, log, result, exitCode, out,
                   setup, listed, rival>>

NextLive ==
    \/ Next
    \/ WaitCall

\* each provider call returns or raises, and the clock advances: a step of
\* the running operation that can be taken is taken
SpecLive == InitLive /\ [][NextLive]_vars /\ WF_vars(Step)

(* A client that constructs a PodConfig with an api_key argument, a config *)
(* file and keyword overrides, then a PodManager with it, and deploys     *)

\* at most this many lines in the config file
MaxLines == 2

\* the values of the api_key argument
ArgKeys == {NoKey, "arg-key"}

\* the lines a config file is made of
ConfigLines ==
    { <<"MAX_GPU_PRICE", "=", "0.50">>,
      <<" ", "MAX_GPU_PRICE", " ", "=", " ", "1.00", " ">>,
      <<"TEMPLATE_ID", "=", "a", "=", "b">>,
      <<"#", "MAX_GPU_PRICE", "=", "1.00">>,
      <<"MAX_GPU_PRICE">>,
      <<" ">>,
      <<>> }

ConfigFiles ==
    {NoFile} \cup
    { [exists |-> TRUE, lines |-> l] :
         l \in UNION { [1..n -> ConfigLines] : n \in 0..MaxLines } }

\* the keyword overrides
Overrides ==
    { EmptyDict,
      <<"MAX_GPU_PRICE">> :> <<"1.00">>,
      <<"TEMPLATE_ID">> :> <<"t2">>,
      (<<"MAX_GPU_PRICE">> :> <<"0.50">>) @@ (<<"TEMPLATE_ID">> :> <<"t2">>),
      <<"IMAGE_NAME_BASE">> :> <<"img">>,
      <<"IMAGE_NAME_BASE">> :> <<"reg/img", ":", "v1">>,
      (<<"IMAGE_NAME_BASE">> :> <<>>) @@ (<<"NETWORK_VOLUME_ID">> :> <<"vol">>),
      (<<"NETWORK_VOLUME_ID">> :> <<"vol">>)
          @@ (<<"VOLUME_MOUNT_PATH">> :> <<"/data">>) }

InitConfig ==
    /\ IdleManager
    /\ market = DefaultMarket
    /\ keyArg \in ArgKeys
    /\ keyEnv \in EnvKeys
    /\ cfgFile \in ConfigFiles
    /\ cfgArgs \in Overrides
    /\ apiKey = NoKey
    /\ config = EmptyDict
    /\ cfgPc = "new"

\* PodConfig.__init__: self.api_key = api_key or self._get_api_key()
ConfigKey ==
    /\ cfgPc = "new"
    /\ IF KeyMissing(keyArg, keyEnv)
       THEN cfgPc' = "error" /\ apiKey' = apiKey
       ELSE cfgPc' = "load" /\ apiKey' = ApiKey(keyArg, keyEnv)
    /\ UNCHANGED <<provider, invocation, deployLocals, pc, fn, caller, found,
                   podId, termId, current_status, polled, elapsed, log,
                   result, exitCode, out, keyArg, keyEnv, cfgFile, cfgArgs,
                   config, aside>>

\* PodConfig.__init__: self.config = self._load_config(config_file, **kwargs)
ConfigLoad ==
    /\ cfgPc = "load"
    /\ config' = LoadConfig(cfgFile, cfgArgs)
    /\ cfgPc' = "ready"
    /\ UNCHANGED <<provider, invocation, deployLocals, pc, fn, caller, found,
                   podId, termId, current_status, polled, elapsed, log,
                   result, exitCode, out, keyArg, keyEnv, apiKey, cfgFile,
                   cfgArgs, aside>>

\* PodManager(project_name, config=config).deploy_pod(pod_type)
ConfigDeploy ==
    /\ cfgPc = "ready"
    /\ pc = "idle"
    /\ op = "none"
    /\ op' = "deploy"
    /\ pc' = EntryPc("deploy")
    /\ fn' = EntryFn("deploy")
    /\ FreshLocals
    /\ UNCHANGED <<provider, project, podType, flag, caller, exitCode, out,
                   setup, aside>>

NextConfig ==
    \/ ConfigKey
    \/ ConfigLoad
    \/ ConfigDeploy
    \/ DeployQuery
    \/ DeployCreate

SpecConfig == InitConfig /\ [][NextConfig]_vars

(* Discovery, the status lookup and status_pod over every listing of the   *)
(* pods a provider may hold                                               *)

\* at most this many pods are held by the provider
MaxListed == 2

\* the ids of the pods the provider holds
IdText(n) == <<"p1", "http2", "p3", "p4">>[n]
LookupIds == {IdText(n) : n \in 1..MaxListed}

\* their owners: the two projects, and one of another name
LookupOwners ==
    {[project |-> p, type |-> t] : p \in Projects \cup { <<"b">> },
                                   t \in PodTypes}

LookupPods ==
    {[id |-> i, name |-> get_pod_name(o.project, o.type, Epoch),
      status |-> s, owner |-> o] :
        i \in LookupIds, o \in LookupOwners, s \in Statuses}

\* no two pods have the same id
LookupPodSets ==
    {S \in SUBSET LookupPods :
        /\ Cardinality(S) <= MaxListed
        /\ \A p, q \in S : p.id = q.id => p = q}

InitLookup ==
    /\ IdleLocals
    /\ nextId = 1
    /\ market = DefaultMarket
    /\ pods \in LookupPodSets
    /\ keyArg = NoKey
    /\ keyEnv = NoKey
    /\ apiKey = NoKey
    /\ cfgFile = NoFile
    /\ cfgArgs = EmptyDict
    /\ config = EmptyDict
    /\ cfgPc = "none"

\* self._find_pod_by_type(pod_type), for a manager of some project
LookupFind ==
    /\ pc = "idle"
    /\ op = "none"
    /\ \E o \in GetPodsOutcomes, proj \in Projects, type \in PodTypes :
          /\ listed' = o
          /\ project' = proj
          /\ podType' = type
          /\ found' = FindPodByType(o, proj, type)
          /\ out' = out \o FindLines(o)
    /\ op' = "lookup"
    /\ fn' = "_find_pod_by_type"
    /\ UNCHANGED <<provider, flag, pc, caller, podId, termId, current_status,
                   polled, elapsed, deployLocals, log, result, exitCode,
                   setup, rival, timeout>>

\* self.get_pod_status(pod_id), for some pod id
LookupStatus ==
    /\ pc = "idle"
    /\ op = "none"
    /\ \E o \in GetPodsOutcomes, id \in LookupIds :
          /\ listed' = o
          /\ podId' = id
          /\ current_status' = GetPodStatus(o, id)
          /\ out' = out \o StatusLines(GetPodStatus(o, id))
    /\ op' = "lookup"
    /\ fn' = "get_pod_status"
    /\ UNCHANGED <<provider, project, podType, flag, pc, caller, found,
                   termId, polled, elapsed, deployLocals, log, result,
                   exitCode, setup, rival, timeout>>

InvokeStatus == InvokeOneOf({"status"})

(* Discovery over listings in which an entry may have no id, or an empty *)
(* one                                                                   *)

\* the entries of a listing: with an id, without the key, or with the
\* value '' (the discovery does not read the status)
ScanPods ==
    {[id |-> i, name |-> get_pod_name(o.project, o.type, Epoch),
      status |-> "RUNNING", owner |-> o] :
        i \in LookupIds \cup {None, ""}, o \in LookupOwners}

\* no two pods have the same id, if they have one
ScanPodSets ==
    {S \in SUBSET ScanPods :
        /\ Cardinality(S) <= MaxListed
        /\ \A p, q \in S : (HasId(p) /\ p.id = q.id) => p = q}

InitScan ==
    /\ IdleLocals
    /\ nextId = 1
    /\ market = DefaultMarket
    /\ pods \in ScanPodSets
    /\ keyArg = NoKey
    /\ keyEnv = NoKey
    /\ apiKey = NoKey
    /\ cfgFile = NoFile
    /\ cfgArgs = EmptyDict
    /\ config = EmptyDict
    /\ cfgPc = "none"

NextScan == LookupFind

SpecScan == InitScan /\ [][NextScan]_vars

NextLookup ==
    \/ LookupFind
    \/ LookupStatus
    \/ InvokeStatus
    \/ StatusFind
    \/ StatusGet

SpecLookup == InitLookup /\ [][NextLookup]_vars

(* Two invocations that deploy the same pod type of the same project: the *)
(* one of the lifecycle, and a rival whose steps are taken between them   *)

\* cli.main of the rival: deploy, with the arguments of the other one
RivalInvoke ==
    /\ rival.pc = "none"
    /\ op = "deploy"
    /\ cfgPc = "ready"
    /\ rival' = [rival EXCEPT !.pc = "deploy_query",
                              !.project = project,
                              !.podType = podType,
                              !.overlap = (pc # "idle")]
    /\ UNCHANGED <<provider, invocation, deployLocals, pc, fn, caller, found,
                   podId, termId, current_status, polled, elapsed, log,
                   result, exitCode, out, setup, listed,
                   timeout>>

\* the rival's get_gpus, get_gpu lookups, filter, sort and pod name
RivalQuery ==
    /\ rival.pc = "deploy_query"
    /\ \/ \* runpod.get_gpus raises
          rival' = [rival EXCEPT !.pc = "returned", !.result = FALSE]
       \/ \E f \in [1..Len(market) -> BOOLEAN] :
          \E ts \in Stamps :
             LET det == [i \in 1..Len(market) |-> Detail(i, f[i])]
                 aff == SortByPrice(AffordableGpus(det, MaxPrice(config))) IN
             IF aff = <<>>
             THEN rival' = [rival EXCEPT !.pc = "returned", !.result = FALSE]
             ELSE rival' = [rival EXCEPT
                               !.pc = "deploy_create",
                               !.affordable = aff,
                               !.idx = 1,
                               !.podName = get_pod_name(rival.project,
                                                        rival.podType, ts)]
    /\ UNCHANGED <<provider, invocation, deployLocals, pc, fn, caller, found,
                   podId, termId, current_status, polled, elapsed, log,
                   result, exitCode, out, setup, listed,
                   timeout>>

\* one iteration of the rival's creation loop
RivalCreate ==
    /\ rival.pc = "deploy_create"
    /\ \/ \* create_pod raises, or returns no id
          /\ IF HasNext(rival.idx, rival.affordable)
             THEN rival' = [rival EXCEPT !.idx = rival.idx + 1]
             ELSE rival' = [rival EXCEPT !.pc = "returned", !.result = FALSE]
          /\ UNCHANGED <<pods, nextId>>
       \/ \* create_pod returns the id of the new pod
          /\ nextId <= MaxPods
          /\ pods' = pods \cup {[id |-> IdOf(nextId), name |-> rival.podName,
                                 status |-> "RUNNING",
                                 owner |-> [project |-> rival.project,
                                            type |-> rival.podType]]}
          /\ nextId' = nextId + 1
          /\ rival' = [rival EXCEPT !.pc = "returned", !.result = TRUE,
                                    !.midway = (pc # "idle")]
    /\ UNCHANGED <<market, invocation, deployLocals, pc, fn, caller, found,
                   podId, termId, current_status, polled, elapsed, log,
                   result, exitCode, out, setup, listed,
                   timeout>>

NextRace ==
    \/ InvokeOneOf({"deploy"})
    \/ DeployQuery
    \/ DeployCreate
    \/ RivalInvoke
    \/ RivalQuery
    \/ RivalCreate

SpecRace == Init /\ [][NextRace]_vars

(* deploy_pod with a create_pod that may return a value of any kind.  Such *)
(* a value says nothing of the provider's pods: they are left as they are *)

AnyOutcomes ==
    CreateOutcomes \cup
       {DictResult(<<"">>), NoneResult, StrResult(""), StrResult("p9"),
        IntResult(0), IntResult(7)}

DeployCreateAny == CreateAttempt(AnyOutcomes)

(* deploy_pod alone, over every market *)

InitDeploy ==
    /\ Idle
    /\ market \in Markets

InvokeDeploy == InvokeOneOf({"deploy"})

NextDeploy ==
    \/ InvokeDeploy
    \/ DeployQuery
    \/ DeployCreate

SpecDeploy == InitDeploy /\ [][NextDeploy]_vars

NextCreate ==
    \/ InvokeDeploy
    \/ DeployQuery
    \/ DeployCreateAny

SpecCreate == InitDeploy /\ [][NextCreate]_vars

----------------------------------------------------------------------------
(* Vocabulary of the properties *)

\* the operation has returned
Done == pc = "idle" /\ op # "none"

\* requests of one kind in the log
Issued(kind) == {j \in 1..Len(log) : log[j].k = kind}

CreateSucceeded == \E j \in Issued("create") : log[j].ok

\* the GPU type with this id, as the provider offers it
MarketGpu(id) == market[CHOOSE i \in 1..Len(market) : GpuId(i) = id]

\* the price of a GPU as section 4.5 defines it: the community spot price
\* if there is one, else the secure spot price
StatedPrice(g) == IF g.community # NoPrice THEN g.community ELSE g.secure

WithinCeiling(g) ==
    StatedPrice(g) # NoPrice /\ StatedPrice(g)[1] <= MaxGpuPrice

\* pods whose name starts with the prefix of the running manager
Matching == {p \in pods :
                StartsWith(p.name, get_pod_name_prefix(project, podType))}

\* start_pod is running, or has handed over to terminate_pod or deploy_pod
InStart ==
    /\ op \in {"start", "restart"}
    /\ fn \in {"start_pod", "terminate_pod", "deploy_pod"}

ResumeReturned == \E j \in Issued("resume") : log[j].ok
ResumeRaised == \E j \in Issued("resume") : ~log[j].ok

----------------------------------------------------------------------------
(* Pod discovery *)

\* C1: a pod returned by _find_pod_by_type has a name that starts with the
\* prefix {project}-{type}- of the manager, and it is a pod of that project
\* and that pod type, never a pod deployed for another project or type.
C1_FindReturnsOwnPod ==
    found.id # None =>
        /\ StartsWith(found.pod.name, get_pod_name_prefix(project, podType))
        /\ found.pod.owner = [project |-> project, type |-> podType]

----------------------------------------------------------------------------
(* deploy_pod *)

C4_CommunityPricePreferred ==
    \A i \in 1..Len(detailed) :
        LET g == detailed[i]
            entries == {k \in 1..Len(affordable) : affordable[k].id = g.id}
        IN  /\ g.community # NoPrice /\ g.community[1] <= MaxGpuPrice
                => /\ entries # {}
                   /\ \A k \in entries : affordable[k].price = g.community[1]
            /\ g.community # NoPrice /\ g.community[1] > MaxGpuPrice
                => entries = {}
            /\ g.community = NoPrice
                => \A k \in entries : /\ g.secure # NoPrice
                                      /\ affordable[k].price = g.secure[1]

\* community 20 and secure 10 is a candidate at 20, community 45 and secure
\* 10 is no candidate
C4_Witness ==
    /\ pc = "deploy_create"
    /\ \E k \in 1..Len(affordable) :
          /\ affordable[k].community_spot = <<20>>
          /\ affordable[k].secure_spot = <<10>>
          /\ affordable[k].price = 20
    /\ \E i \in 1..Len(detailed) :
          /\ detailed[i].community = <<45>>
          /\ detailed[i].secure = <<10>>
          /\ \A k \in 1..Len(affordable) : affordable[k].id # detailed[i].id

----------------------------------------------------------------------------
(* start_pod, stop_pod, terminate_pod *)

\* C6: once start_pod has found a pod and read the status RUNNING, it has
\* returned success, whatever deploy_new_if_needed is, and no resume, create
\* or terminate request has been issued.
C6_StartRunningIsNoOp ==
    (fn = "start_pod" /\ pc # "start_find" /\ current_status = "RUNNING") =>
        /\ Done /\ result
        /\ Issued("resume") = {}
        /\ Issued("create") = {}
        /\ Issued("terminate") = {}

\* start --deploy-new-if-needed on a running pod
C6_Witness ==
    /\ Done /\ op = "start" /\ flag
    /\ fn = "start_pod"
    /\ found.id # None
    /\ current_status = "RUNNING"
    /\ result
    /\ log = <<>>

\* C7: when discovery returns no pod, stop_pod returns success without a
\* stop request, and terminate_pod returns failure without a terminate
\* request.
C7_AbsentPod ==
    /\ (fn = "stop_pod" /\ pc # "stop_find" /\ found.id = None)
          => Done /\ op = "stop" /\ result /\ Issued("stop") = {}
    /\ (Done /\ fn = "stop_pod" /\ ~result) => found.id # None
    /\ (fn = "terminate_pod" /\ pc # "term_find" /\ termId = None)
          => Done /\ ~result /\ Issued("terminate") = {}
    /\ (Done /\ fn = "terminate_pod" /\ result) => termId # None

\* a pod was deployed and is gone; no pod has the prefix, and terminate
\* fails without a request
C7_Witness ==
    /\ Done /\ op = "terminate" /\ ~result
    /\ nextId > 1
    /\ Matching = {}
    /\ termId = None
    /\ log = <<>>

\* start_pod has read this status of the pod it found (current_status is
\* also the local of stop_pod until start_pod's own discovery has run)
StartRead(statuses) ==
    InStart /\ pc # "start_find" /\ current_status \in statuses

\* C8: when the resume request of start_pod raises and
\* deploy_new_if_needed is set, by the time deploy_pod runs a terminate
\* request for the pod that failed to resume has been issued, before any
\* create request, and start_pod returns what deploy_pod returns; when the
\* flag is not set, start_pod returns failure and there is neither a
\* terminate nor a create request.
C8_TerminateBrokenPodFirst ==
    (InStart /\ ResumeRaised) =>
        /\ (flag /\ fn = "deploy_pod")
              => \E t \in Issued("terminate") :
                    /\ log[t].target = podId
                    /\ \A c \in Issued("create") : t < c
        /\ (flag /\ Done)
              => fn = "deploy_pod" /\ (result <=> CreateSucceeded)
        /\ ~flag
              => /\ Done /\ ~result
                 /\ Issued("terminate") = {}
                 /\ Issued("create") = {}

\* C9: for a found pod whose status is neither RUNNING nor NOT_FOUND nor
\* Error, start_pod issues exactly one resume request, for the pod id it
\* discovered; when the request returns it waits for RUNNING, returns
\* success if the wait observed RUNNING, and otherwise hands over to
\* deploy_pod and returns its result if deploy_new_if_needed is set, and
\* returns failure if it is not.
C9_ResumeThenWait ==
    /\ (fn = "start_pod" /\ pc \in {"start_status", "start_resume", "start_wait"})
          => found.id # None /\ podId = found.id
    /\ StartRead(Statuses \ {"RUNNING"}) =>
          /\ pc = "start_resume" => Issued("resume") = {}
          /\ pc # "start_resume"
                => \E j \in Issued("resume") :
                      /\ Issued("resume") = {j}
                      /\ log[j].target = podId
          /\ pc = "start_wait" => ResumeReturned
          /\ (ResumeReturned /\ pc # "start_wait") =>
                /\ polled = "RUNNING"
                      => Done /\ fn = "start_pod" /\ result
                /\ (polled # "RUNNING" /\ ~flag)
                      => /\ Done /\ fn = "start_pod" /\ ~result
                         /\ Issued("create") = {}
                /\ (polled # "RUNNING" /\ flag)
                      => /\ fn = "deploy_pod"
                         /\ Done => (result <=> CreateSucceeded)

\* the pod is resumed, never reaches RUNNING within the timeout, and the
\* replacement deploy succeeds
C9_Witness ==
    /\ Done /\ op = "start" /\ flag /\ result
    /\ fn = "deploy_pod"
    /\ current_status = "EXITED"
    /\ polled = "EXITED"
    /\ Len(log) = 2
    /\ log[1] = Req("resume", podId, TRUE)
    /\ log[2].k = "create" /\ log[2].ok

\* C10: when start_pod finds no pod, or finds one whose status lookup gives
\* NOT_FOUND or Error, there is no resume request; with
\* deploy_new_if_needed set it hands over to deploy_pod and returns its
\* result, and with the flag not set it returns failure and there is no
\* create request.
C10_NoPodToResume ==
    (\/ InStart /\ pc # "start_find" /\ podId = None
     \/ StartRead({"NOT_FOUND", "Error"}))
        => /\ Issued("resume") = {}
           /\ flag => /\ fn = "deploy_pod"
                      /\ Done => (result <=> CreateSucceeded)
           /\ ~flag => /\ Done /\ fn = "start_pod" /\ ~result
                       /\ Issued("create") = {}

\* the pod disappears between discovery and the status lookup, and the
\* replacement deploy succeeds
C10_Witness ==
    /\ Done /\ op = "start" /\ flag /\ result
    /\ podId # None
    /\ current_status = "NOT_FOUND"
    /\ fn = "deploy_pod"
    /\ Len(log) = 1 /\ log[1].k = "create" /\ log[1].ok

----------------------------------------------------------------------------
(* restart_pod *)

\* the statuses stop_pod takes for stopped
Stopped == {"EXITED", "STOPPED"}

\* the locals stop_pod leaves behind show that it returned success: there
\* was no pod, or it was stopped already, or the stop request returned and
\* the wait observed a stopped status
StopHadSucceeded ==
    \/ found.id = None
    \/ current_status \in Stopped
    \/ /\ \E s \in Issued("stop") : log[s].ok
       /\ polled \in Stopped

\* C11: in restart_pod no resume, create or terminate request is issued
\* while stop_pod runs, every stop request precedes every resume and create
\* request, start_pod begins only after stop_pod has returned success, and
\* when stop_pod fails restart_pod returns failure with nothing issued after.
C11_StopThenStart ==
    op = "restart" =>
        /\ fn = "stop_pod"
              => /\ Issued("resume") = {}
                 /\ Issued("create") = {}
                 /\ Issued("terminate") = {}
                 /\ Done => ~result
        /\ pc = "start_find"
              => /\ StopHadSucceeded
                 /\ Issued("resume") = {}
                 /\ Issued("create") = {}
        /\ \A s \in Issued("stop") :
              /\ \A r \in Issued("resume") \cup Issued("create") : s < r
              /\ ~log[s].ok
                    => Done /\ fn = "stop_pod" /\ ~result /\ Len(log) = s

\* the pod is stopped and then resumed
C11_Witness ==
    /\ Done /\ op = "restart" /\ result
    /\ fn = "start_pod"
    /\ log = <<Req("stop", podId, TRUE), Req("resume", podId, TRUE)>>

----------------------------------------------------------------------------
(* stop_pod *)

\* stop_pod has found a pod and read its status
StopRead == fn = "stop_pod" /\ found.id # None /\ current_status # None

\* C12 as stated: for a pod that is found, stop_pod returns success without
\* a stop request if the status is EXITED or STOPPED, and for every other
\* status it issues a stop request for the discovered pod id.
C12_StopUnlessStopped ==
    StopRead =>
        /\ current_status \in Stopped
              => Done /\ result /\ Issued("stop") = {}
        /\ current_status \notin Stopped
              => \/ pc = "stop_call"
                 \/ \E j \in Issued("stop") : log[j].target = found.id

\* C12: for a pod that is found, stop_pod returns success without a stop
\* request if the status is EXITED or STOPPED and failure without a stop
\* request if the status lookup gives NOT_FOUND or Error; for every other
\* status it issues exactly one stop request, for the discovered pod id,
\* returns failure if the request raises, and otherwise waits and returns
\* success exactly when the wait observed a stopped status.
C12_StopFoundPod ==
    /\ (fn = "stop_pod" /\ found.id # None) => podId = found.id
    /\ StopRead =>
          /\ current_status \in Stopped
                => Done /\ result /\ Issued("stop") = {}
          /\ current_status \in {"NOT_FOUND", "Error"}
                => Done /\ ~result /\ Issued("stop") = {}
          /\ current_status \notin Stopped \cup {"NOT_FOUND", "Error"}
                => /\ pc = "stop_call" => Issued("stop") = {}
                   /\ pc # "stop_call"
                         => \E j \in Issued("stop") :
                               /\ Issued("stop") = {j}
                               /\ log[j].target = found.id
                               /\ ~log[j].ok => Done /\ ~result
                               /\ log[j].ok
                                     => pc \in {"stop_wait", "stop_final", "idle"}
                   /\ pc = "stop_final" => polled \in Stopped
                   /\ Done => (result <=> /\ \E j \in Issued("stop") : log[j].ok
                                          /\ polled \in Stopped)

\* the pod is found, then gone when its status is looked up: failure, and
\* no stop request
C12_Witness ==
    /\ Done /\ op = "stop" /\ ~result
    /\ found.id # None
    /\ current_status = "NOT_FOUND"
    /\ log = <<>>

----------------------------------------------------------------------------
(* wait_for_status *)

Waiting == pc \in {"start_wait", "stop_wait"}

\* a step of wait_for_status (the provider's steps leave pc and elapsed)
WaitStep == Waiting /\ (pc' # pc \/ elapsed' # elapsed)

\* the step returns True to start_pod or to stop_pod
WaitGaveTrue ==
    \/ pc = "start_wait" /\ pc' = "idle" /\ result'
    \/ pc = "stop_wait" /\ pc' = "stop_final"

\* the step returns False to start_pod or to stop_pod
WaitGaveFalse ==
    \/ pc = "start_wait" /\ pc' = "deploy_query"
    \/ pc = "start_wait" /\ pc' = "idle" /\ ~result'
    \/ pc = "stop_wait" /\ pc' = "idle" /\ ~result'

\* C13: a step of wait_for_status taken before the timeout polls once: it
\* returns True if the poll observes a target status, returns False if the
\* poll observes Error or NOT_FOUND, and otherwise stays in the loop with
\* the clock at least 5 seconds further; a step taken once the timeout has
\* elapsed returns False without polling; True is returned only by a step
\* whose poll observed a target status.
C13_WaitForStatus ==
    [][ WaitStep =>
          /\ elapsed < WaitTimeout =>
                /\ polled' \in WaitTargets => WaitGaveTrue
                /\ polled' \in {"Error", "NOT_FOUND"} => WaitGaveFalse
                /\ polled' \notin WaitTargets \cup {"Error", "NOT_FOUND"}
                      => /\ pc' = pc
                         /\ elapsed' >= elapsed + PollInterval
          /\ elapsed >= WaitTimeout
                => WaitGaveFalse /\ polled' = polled
          /\ WaitGaveTrue
                => elapsed < WaitTimeout /\ polled' \in WaitTargets
          /\ WaitGaveTrue \/ WaitGaveFalse \/ pc' = pc
      ]_vars

\* the stop request returned, the pod went on running, and the timeout has
\* elapsed
C13_Witness ==
    /\ pc = "stop_wait"
    /\ elapsed >= WaitTimeout
    /\ polled = "RUNNING"

----------------------------------------------------------------------------
(* terminate_pod *)

\* C14: terminate_pod on a found pod issues exactly one terminate request,
\* for the pod id it discovered, and returns success exactly when that call
\* returned, whether or not the pod is gone.
C14_TerminateFoundPod ==
    /\ pc = "term_call"
          => /\ termId # None /\ termId = found.id
             /\ Issued("terminate") = {}
    /\ (termId # None /\ pc # "term_call")
          => \E j \in Issued("terminate") :
                /\ Issued("terminate") = {j}
                /\ log[j].target = termId
                /\ fn = "terminate_pod" => Done /\ (result <=> log[j].ok)

\* the call returned and the pod is still listed: success
C14_Witness ==
    /\ Done /\ op = "terminate" /\ result
    /\ log = <<Req("terminate", termId, TRUE)>>
    /\ \E p \in pods : p.id = termId

----------------------------------------------------------------------------
(* Provider-call failures *)

\* the positions of the code of the six operations
Positions ==
    {"idle", "term_find", "term_call", "status_find", "status_get",
     "start_find", "start_status", "start_resume", "start_wait",
     "stop_find", "stop_status", "stop_call", "stop_wait", "stop_final",
     "deploy_query", "deploy_create"}

\* C15: whichever provider calls raise, an operation is never left by an
\* exception: it is at a position of its code from which it goes on, or it
\* has returned, and what it returns is a boolean.
C15_NoExceptionEscapes ==
    /\ pc \in Positions
    /\ result \in BOOLEAN
    /\ pc # "idle" => ENABLED Step

\* the resume request, the terminate request and the create request have
\* all raised, and start_pod has returned False
C15_Witness ==
    /\ Done /\ op = "start" /\ ~result
    /\ Len(log) = 3
    /\ log[1].k = "resume" /\ ~log[1].ok
    /\ log[2].k = "terminate" /\ ~log[2].ok
    /\ log[3].k = "create" /\ ~log[3].ok

----------------------------------------------------------------------------
(* Retries *)

\* C16: one invocation issues at most one resume request, at most one stop
\* request and at most one terminate request, and no two create requests
\* for the same GPU.
C16_NoRetry ==
    /\ Cardinality(Issued("resume")) <= 1
    /\ Cardinality(Issued("stop")) <= 1
    /\ Cardinality(Issued("terminate")) <= 1
    /\ \A i, j \in Issued("create") :
          log[i].target = log[j].target => i = j

\* a restart that stops the pod, fails to resume it, terminates it and
\* creates the replacement at the second attempt
C16_Witness ==
    /\ Done /\ op = "restart" /\ result
    /\ Len(log) = 5
    /\ log[1].k = "stop"
    /\ log[2].k = "resume"
    /\ log[3].k = "terminate"
    /\ log[4].k = "create" /\ ~log[4].ok
    /\ log[5].k = "create" /\ log[5].ok

----------------------------------------------------------------------------
(* cli.main *)

\* an operation of the manager was invoked
Operated == fn # "none"

----------------------------------------------------------------------------
(* PodConfig *)

\* the PodConfig has been constructed
Constructed == cfgPc = "ready"

\* the lines of the file that set the key k
LinesFor(k) ==
    {i \in 1..Len(cfgFile.lines) :
        /\ IsEntry(Strip(cfgFile.lines[i]))
        /\ EntryKey(Strip(cfgFile.lines[i])) = k}

\* the file's value for k: that of the last line that sets it
FileValue(k) ==
    LET last == CHOOSE i \in LinesFor(k) : \A j \in LinesFor(k) : j <= i
    IN  EntryValue(Strip(cfgFile.lines[last]))

\* the recognised keys and their built-in defaults
DefaultKeys == {Defaults[i][1] : i \in 1..Len(Defaults)}
DefaultValue(k) ==
    Defaults[CHOOSE i \in 1..Len(Defaults) : Defaults[i][1] = k][2]

\* every key that occurs anywhere
AllKeys ==
    DOMAIN config \cup DOMAIN cfgArgs \cup DefaultKeys
       \cup {EntryKey(l) : l \in {x \in ConfigLines : IsEntry(Strip(x))}}

\* C17: in a constructed PodConfig a key given as a keyword override has
\* the override's value; else a key set in the config file has the value of
\* the file; else a recognised key has its built-in default; and any other
\* key is not in the configuration.
C17_ConfigPrecedence ==
    Constructed =>
        \A k \in AllKeys :
            IF k \in DOMAIN cfgArgs
            THEN k \in DOMAIN config /\ config[k] = cfgArgs[k]
            ELSE IF cfgFile.exists /\ LinesFor(k) # {}
            THEN k \in DOMAIN config /\ config[k] = FileValue(k)
            ELSE IF k \in DefaultKeys
            THEN k \in DOMAIN config /\ config[k] = DefaultValue(k)
            ELSE k \notin DOMAIN config

\* default 0.30, the file says 0.50, the override says 1.00: it is 1.00
C17_Witness ==
    /\ Constructed
    /\ cfgFile.exists
    /\ \E i \in 1..Len(cfgFile.lines) :
          cfgFile.lines[i] = <<"MAX_GPU_PRICE", "=", "0.50">>
    /\ <<"MAX_GPU_PRICE">> \in DOMAIN cfgArgs
    /\ cfgArgs[<<"MAX_GPU_PRICE">>] = <<"1.00">>
    /\ config[<<"MAX_GPU_PRICE">>] = <<"1.00">>

\* C18: the api key of a PodConfig is the api_key argument if one is given
\* and else the environment variable; with neither, the construction fails
\* before the config file is read, and nothing is ever done with the
\* provider: no operation is invoked and no request is issued.
C18_ApiKeyRequired ==
    /\ cfgPc \in {"load", "ready"}
          => /\ apiKey = (IF keyArg # NoKey THEN keyArg ELSE keyEnv)
             /\ apiKey # NoKey
    /\ (keyArg = NoKey /\ keyEnv = NoKey)
          => /\ cfgPc \in {"new", "error"}
             /\ DOMAIN config = {}
             /\ pc = "idle" /\ op = "none" /\ log = <<>>
    /\ cfgPc = "error" => keyArg = NoKey /\ keyEnv = NoKey
    /\ (pc # "idle" \/ op # "none" \/ log # <<>>)
          => cfgPc = "ready" /\ apiKey # NoKey

\* no key at all and a config file with a line: the construction has failed
C18_Witness ==
    /\ cfgPc = "error"
    /\ keyArg = NoKey /\ keyEnv = NoKey
    /\ cfgFile.exists /\ Len(cfgFile.lines) > 0

----------------------------------------------------------------------------
(* Output when verbose is False *)

\* the lines an action may print as its one line
StatusWords == Statuses \cup {"TERMINATED"}

\* the four-line block of status_pod
BlockKeys == <<"POD_TYPE=", "POD_ID=", "POD_URL=", "POD_STATUS=">>
IsStatusBlock(lines) ==
    /\ Len(lines) = Len(BlockKeys)
    /\ \A i \in 1..Len(BlockKeys) : StartsWith(lines[i], BlockKeys[i])

\* C20: an operation that has returned success has printed, when verbose is
\* False, exactly the status block if it is status, and else exactly one
\* line, a status word or the pod id.
C20_OneLine ==
    (Done /\ Operated /\ result) =>
        IF op = "status" THEN IsStatusBlock(out)
        ELSE /\ Len(out) = 1
             /\ out[1] \in StatusWords \cup {PodIdLine}

----------------------------------------------------------------------------
(* Argument validation *)

\* C21: no pod type outside the configured set and no word other than the
\* six actions ever reaches a manager; an invocation with such an argument
\* ends with no operation invoked, no PodConfig constructed, no
\* configuration loaded and no provider request.
C21_InvalidArgsRejected ==
    /\ podType \in PodTypes
    /\ op \in Actions \cup {"none", "help", "rejected"}
    /\ op = "rejected"
          => /\ pc = "idle"
             /\ ~Operated
             /\ log = <<>>
             /\ cfgPc = "none"
             /\ apiKey = NoKey
             /\ DOMAIN config = {}
             /\ exitCode = <<2>>

\* an invocation is rejected while a key is in the environment and a pod
\* exists
C21_Witness ==
    /\ op = "rejected"
    /\ keyEnv # NoKey
    /\ pods # {}
    /\ exitCode = <<2>>

----------------------------------------------------------------------------
(* Discovery and the status lookup *)

\* _find_pod_by_type has been applied to the listing
Looked == op = "lookup" /\ fn = "_find_pod_by_type"

\* get_pod_status has been applied to the listing
Asked == op = "lookup" /\ fn = "get_pod_status"

\* the positions of the listing whose pod name starts with the prefix
Candidates ==
    {i \in 1..Len(listed.pods) :
        StartsWith(listed.pods[i].name, get_pod_name_prefix(project, podType))}

First(S) == CHOOSE i \in S : \A j \in S : i <= j

\* C24: applied to a listing that was returned, _find_pod_by_type gives the
\* id of the first pod of the listing whose name starts with the prefix,
\* and the URL built from that id; it gives (None, None), both absent, when
\* no name starts with the prefix.
C24_FirstMatch ==
    (Looked /\ ~listed.raised) =>
        IF Candidates = {}
        THEN found.id = None /\ found.url = None
        ELSE /\ found.id = listed.pods[First(Candidates)].id
             /\ found.url = found.id \o "-5000.proxy.runpod.net"

\* two pods of the listing match, and the first one is returned
C24_Witness ==
    /\ Looked
    /\ Cardinality(Candidates) = 2
    /\ found.id = listed.pods[1].id
    /\ found.id # listed.pods[2].id

\* C25: when the listing call raises, _find_pod_by_type returns (None, None),
\* the very result it gives for a listing without a match, and the
\* exception goes no further.
C25_ListingFailureIsNotFound ==
    (Looked /\ listed.raised) =>
        /\ found = NotFound
        /\ found = FindPodByType(NoListing, project, podType)
        /\ found.id = None /\ found.url = None
        /\ pc = "idle"

\* the listing call raised while the provider holds a pod of the type
C25_Witness ==
    /\ Looked
    /\ listed.raised
    /\ \E p \in pods : p.owner = [project |-> project, type |-> podType]
    /\ found = NotFound

\* C26: get_pod_status gives Error when the listing call raised, the status
\* of the pod with the id when the listing holds one, and NOT_FOUND when it
\* holds none; it returns in every case.
C26_GetPodStatus ==
    Asked =>
        /\ pc = "idle"
        /\ IF listed.raised THEN current_status = "Error"
           ELSE IF \E i \in 1..Len(listed.pods) : listed.pods[i].id = podId
           THEN \E i \in 1..Len(listed.pods) :
                   /\ listed.pods[i].id = podId
                   /\ current_status = listed.pods[i].status
           ELSE current_status = "NOT_FOUND"

\* the pod asked for is the second of the listing
C26_Witness ==
    /\ Asked
    /\ Len(listed.pods) = 2
    /\ listed.pods[2].id = podId
    /\ listed.pods[1].status # listed.pods[2].status
    /\ current_status = listed.pods[2].status

----------------------------------------------------------------------------
(* status_pod *)

\* C22: status_pod fails when no pod of the type is found; otherwise it
\* succeeds and prints the type, the id, the URL https://<id>-5000.proxy.
\* runpod.net and the status; it issues no mutating request in either case.
C22_StatusReport ==
    (Done /\ op = "status" /\ cfgPc = "ready") =>
        /\ log = <<>>
        /\ result <=> found.id # None
        /\ result =>
              /\ Len(out) >= 4
              /\ out[1] = "POD_TYPE=" \o Text(podType)
              /\ out[2] = "POD_ID=" \o found.id
              /\ out[3] = "POD_URL=https://" \o found.id
                              \o "-5000.proxy.runpod.net"
              /\ out[Len(out)] = "POD_STATUS=" \o current_status

----------------------------------------------------------------------------
(* Two deploys of the same pod type *)

\* both invocations have deployed the same pod type of the same project,
\* and both have returned success
BothSucceeded ==
    /\ Done /\ op = "deploy" /\ result
    /\ rival.pc = "returned" /\ rival.result
    /\ rival.project = project /\ rival.podType = podType

\* C23: deploy_pod never looks at the pods that exist: whatever they are, it
\* can go on from its query to the creation loop and a create request can
\* succeed; and when two invocations have both deployed the same pod type of
\* the same project with success, at least two pods have names with the
\* prefix of that project and type.
C23_UncoordinatedDeploys ==
    /\ op = "deploy" => found = NotFound
    /\ pc = "deploy_query" => ENABLED (DeployQuery /\ pc' = "deploy_create")
    /\ (pc = "deploy_create" /\ nextId <= MaxPods)
          => ENABLED (DeployCreate /\ result')
    /\ BothSucceeded => Cardinality(Matching) >= 2

\* the rival began and created its pod while the other deploy was running,
\* and both returned success
C23_Witness ==
    /\ BothSucceeded
    /\ rival.overlap /\ rival.midway
    /\ Cardinality(Matching) = 2

----------------------------------------------------------------------------
(* deploy_pod: the pricing lookups *)

\* the entry of detailed_gpus is the basic record, without a price
Priceless(g) == g.community = NoPrice /\ g.secure = NoPrice

\* the ids of the candidates
CandidateIds == {affordable[k].id : k \in 1..Len(affordable)}

----------------------------------------------------------------------------
(* deploy_pod: the arguments of create_pod *)

\* the value configured for a key, the empty text if there is none
Configured(k) == IF k \in DOMAIN config THEN config[k] ELSE <<>>

\* a create_pod call has been made
CreateCalled == DOMAIN podParams # {}

\* C28: the image name passed to create_pod is IMAGE_NAME_BASE itself if it
\* is configured and contains ':', IMAGE_NAME_BASE + ':' + pod_type if it is
\* configured without ':', and runpod/pytorch:latest if it is not
\* configured; template_id is passed exactly when TEMPLATE_ID is
\* configured, network_volume_id and volume_mount_path exactly when
\* NETWORK_VOLUME_ID is, each with the configured value.
C28_CreateArguments ==
    CreateCalled =>
        /\ podParams["image_name"] =
              (IF Configured(<<"IMAGE_NAME_BASE">>) = <<>>
               THEN <<"runpod/pytorch", ":", "latest">>
               ELSE IF \E i \in 1..Len(Configured(<<"IMAGE_NAME_BASE">>)) :
                          Configured(<<"IMAGE_NAME_BASE">>)[i] = ":"
               THEN Configured(<<"IMAGE_NAME_BASE">>)
               ELSE Configured(<<"IMAGE_NAME_BASE">>) \o <<":">> \o podType)
        /\ "template_id" \in DOMAIN podParams
              <=> Configured(<<"TEMPLATE_ID">>) # <<>>
        /\ "template_id" \in DOMAIN podParams
              => podParams["template_id"] = Configured(<<"TEMPLATE_ID">>)
        /\ "network_volume_id" \in DOMAIN podParams
              <=> Configured(<<"NETWORK_VOLUME_ID">>) # <<>>
        /\ "volume_mount_path" \in DOMAIN podParams
              <=> Configured(<<"NETWORK_VOLUME_ID">>) # <<>>
        /\ "network_volume_id" \in DOMAIN podParams
              => /\ podParams["network_volume_id"]
                       = Configured(<<"NETWORK_VOLUME_ID">>)
                 /\ podParams["volume_mount_path"]
                       = Configured(<<"VOLUME_MOUNT_PATH">>)

\* a base image with a tag is configured, and is passed as it is, with
\* neither a template nor a network volume
C28_Witness ==
    /\ CreateCalled
    /\ Configured(<<"IMAGE_NAME_BASE">>) = <<"reg/img", ":", "v1">>
    /\ podParams["image_name"] = <<"reg/img", ":", "v1">>
    /\ DOMAIN podParams = {"name", "gpu_type_id", "image_name"}

----------------------------------------------------------------------------
(* The lines of the config file *)

\* the line is blank, starts with '#' or has no '='
Ignored(line) ==
    \/ Strip(line) = <<>>
    \/ Head(Strip(line)) = "#"
    \/ \A i \in 1..Len(line) : line[i] # "="

\* the text before and the text after the first '=' of a line, stripped
FirstEq(line) == CHOOSE i \in 1..Len(line) :
                    line[i] = "=" /\ \A j \in 1..(i - 1) : line[j] # "="
KeyText(line) == Strip(SubSeq(line, 1, FirstEq(line) - 1))
ValueText(line) == Strip(SubSeq(line, FirstEq(line) + 1, Len(line)))

\* the lines that are not ignored and set the key k
EntriesFor(k) ==
    {i \in 1..Len(cfgFile.lines) :
        ~Ignored(cfgFile.lines[i]) /\ KeyText(cfgFile.lines[i]) = k}

\* the file without its ignored lines
RECURSIVE Kept(_)
Kept(lines) ==
    IF lines = <<>> THEN <<>>
    ELSE IF Ignored(Head(lines)) THEN Kept(Tail(lines))
    ELSE <<Head(lines)>> \o Kept(Tail(lines))

\* C29: in a PodConfig constructed from a file, a key that is not
\* overridden and that some line which is not ignored (not blank, not
\* starting with '#', with a '=') sets has the value of the last such line,
\* the text after the first '=' stripped; a key that only ignored lines
\* mention has its default or is absent; and the configuration is the one
\* the file without its ignored lines gives.
C29_ConfigFileLines ==
    (Constructed /\ cfgFile.exists) =>
        /\ \A k \in AllKeys \ DOMAIN cfgArgs :
              IF EntriesFor(k) # {}
              THEN /\ k \in DOMAIN config
                   /\ config[k] =
                         ValueText(cfgFile.lines[
                            CHOOSE i \in EntriesFor(k) :
                               \A j \in EntriesFor(k) : j <= i])
              ELSE IF k \in DefaultKeys
              THEN config[k] = DefaultValue(k)
              ELSE k \notin DOMAIN config
        /\ config = LoadConfig([exists |-> TRUE,
                                lines |-> Kept(cfgFile.lines)], cfgArgs)

\* a comment that mentions the price and a line with two '=': the price is
\* the default and the value is the text after the first '='
C29_Witness ==
    /\ Constructed
    /\ cfgArgs = EmptyDict
    /\ cfgFile.exists
    /\ cfgFile.lines = << <<"#", "MAX_GPU_PRICE", "=", "1.00">>,
                          <<"TEMPLATE_ID", "=", "a", "=", "b">> >>
    /\ config[<<"MAX_GPU_PRICE">>] = <<"0.30">>
    /\ config[<<"TEMPLATE_ID">>] = <<"a", "=", "b">>

----------------------------------------------------------------------------
(* start_pod: the deploy after a failed wait *)

\* start_pod has gone on to deploy_pod after a resume call that returned:
\* the wait for RUNNING has failed
WaitFallback ==
    /\ InStart
    /\ fn = "deploy_pod"
    /\ \E j \in Issued("resume") : log[j].ok

\* C30: when start_pod deploys after the wait for RUNNING has failed, the
\* invocation issues no terminate request, before or after the create
\* requests; when that deploy has succeeded, a pod other than the one that
\* was resumed has a name with the prefix.
C30_WaitFallbackKeepsPod ==
    WaitFallback =>
        /\ flag
        /\ Issued("terminate") = {}
        /\ (Done /\ result)
              => /\ CreateSucceeded
                 /\ \E p \in Matching : p.id # podId

\* the pod that was resumed and the new pod both exist, with the prefix
C30_Witness ==
    /\ WaitFallback
    /\ Done /\ result /\ op = "start"
    /\ \E p \in Matching : p.id = podId
    /\ \E p \in Matching : p.id # podId
    /\ Cardinality(Matching) = 2


----------------------------------------------------------------------------
(* start_pod: the terminate and the deploy after a resume call that raised *)

\* the resume call of start_pod has raised with deploy_new_if_needed set
ResumeFallback == InStart /\ ResumeRaised /\ flag

\* the pod whose resume failed is still held by the provider
BrokenPodExists == \E p \in pods : p.id = podId

\* C31: after a resume call of start_pod that raised, with the flag set,
\* terminate_pod runs its own discovery for the pod type: the only pod a
\* terminate request is issued for is the one that discovery returned, a
\* pod whose name starts with the prefix, and it can be another pod than
\* the one whose resume failed; whether the discovery finds nothing, the
\* terminate call raises or it returns, deploy_pod comes next and start_pod
\* returns what deploy_pod returns.
C31_TerminateByTypeThenDeploy ==
    ResumeFallback =>
        /\ fn \in {"terminate_pod", "deploy_pod"}
        /\ Cardinality(Issued("terminate")) <= 1
        /\ \A t \in Issued("terminate") :
              /\ termId # None
              /\ log[t].target = termId
              /\ found.id = termId
              /\ StartsWith(found.pod.name,
                            get_pod_name_prefix(project, podType))
              /\ \A c \in Issued("create") : t < c
        /\ pc = "term_find"
              => /\ caller = "start_exc"
                 /\ Issued("terminate") = {}
                 \* the discovery fails: the deploy comes next
                 /\ ENABLED (TermFind /\ found' = NotFound
                                /\ pc' = "deploy_query")
                 \* another pod of the prefix is listed first
                 /\ (\E p \in Matching : p.id # podId)
                       => ENABLED (TermFind /\ termId' # None
                                      /\ termId' # podId)
        /\ pc = "term_call"
              => /\ caller = "start_exc"
                 /\ found.id = termId /\ termId # None
                 /\ ENABLED (TermCall /\ ~log'[Len(log')].ok
                                /\ pc' = "deploy_query")
                 /\ ENABLED (TermCall /\ log'[Len(log')].ok
                                /\ pc' = "deploy_query")
        /\ Done => /\ fn = "deploy_pod"
                   /\ result <=> CreateSucceeded

\* no pod was terminated, and the replacement exists beside the pod whose
\* resume failed
C31_Witness ==
    /\ ResumeFallback
    /\ Done /\ result /\ CreateSucceeded
    /\ BrokenPodExists
    /\ \A t \in Issued("terminate") : ~log[t].ok
    /\ \E p \in Matching : p.id # podId

----------------------------------------------------------------------------
(* The operations when the listing call of the discovery raises *)

\* the positions at which an operation calls _find_pod_by_type
FindPositions == {"stop_find", "term_find", "status_find", "start_find"}

\* the step is a discovery whose listing call raised: _find_pod_by_type has
\* printed the message of its except clause and nothing else is printed
DiscoveryFailed ==
    /\ pc \in FindPositions
    /\ pc' # pc
    /\ out' = out \o <<ErrorLine>>

\* the running function's False goes to cli.main, which exits with 1
ReturnsFailure == pc' = "idle" /\ ~result' /\ exitCode' = <<1>>

\* C32: a discovery whose listing call raised gives (None, None) and issues
\* no request.  On it stop_pod returns success (to cli.main, or to
\* restart_pod, which goes on to start_pod), whatever pods exist;
\* terminate_pod returns failure (to cli.main, or to the except clause of
\* start_pod, which deploys); status_pod returns failure; start_pod returns
\* failure without deploy_new_if_needed and calls deploy_pod with it.
C32_DiscoveryOutage ==
    [][DiscoveryFailed =>
         /\ found' = NotFound
         /\ log' = log
         /\ pods' = pods
         /\ pc = "stop_find"
               => IF caller = "restart"
                  THEN pc' = "start_find" /\ fn' = "start_pod"
                  ELSE pc' = "idle" /\ result' /\ exitCode' = <<0>>
         /\ pc = "term_find"
               => IF caller = "start_exc"
                  THEN pc' = "deploy_query" /\ fn' = "deploy_pod"
                  ELSE ReturnsFailure
         /\ pc = "status_find" => ReturnsFailure
         /\ pc = "start_find"
               => IF flag
                  THEN pc' = "deploy_query" /\ fn' = "deploy_pod"
                  ELSE ReturnsFailure]_vars

\* stop_pod has returned success on a failed discovery, without a request,
\* while a pod of the type is running
C32_Witness ==
    /\ op = "stop" /\ Done /\ result
    /\ out = <<ErrorLine>>
    /\ found = NotFound
    /\ log = <<>>
    /\ \E p \in Matching : p.status = "RUNNING"

----------------------------------------------------------------------------
(* deploy_pod: what create_pod returned *)

\* the last create_pod call
Attempt == created.outcome

\* a create_pod call has returned a dict
GaveDict == Attempt.type = "dict"

\* a create_pod call has returned a value that is not a dict
GaveOther == Attempt.type \in {"NoneType", "str", "int"}

\* the attempt counts as failed: the loop is at the next candidate, or, after
\* the last one, deploy_pod has returned failure
AttemptFailed ==
    /\ ~log[Len(log)].ok
    /\ IF Len(log) < Len(affordable)
       THEN pc = "deploy_create" /\ idx = Len(log) + 1
       ELSE Done /\ ~result

\* the attempt ends the loop: deploy_pod has returned success with this id
AttemptSucceeded(id) ==
    /\ log[Len(log)].ok
    /\ Done /\ result
    /\ created.pod_id = <<id>>
    /\ out[Len(out)] = PodIdLine

\* C33 as stated: a dict without a non-empty id is a failed attempt, and any
\* value that is not a dict is a success whose pod id is the string form of
\* the value.
C33_AnyValueIsAPod ==
    /\ (GaveDict /\ Attempt.s \in {<<>>, <<"">>}) => AttemptFailed
    /\ GaveOther => AttemptSucceeded(Str(Attempt))

\* C33: a dict without a non-empty id is a failed attempt, after which the
\* loop goes on with the next candidate; a value that is not a dict is a
\* success whose pod id is the string form of the value, ending the loop,
\* unless that string form is empty (the value is the empty string), in
\* which case it is a failed attempt like a dict without an id.
C33_CreateResult ==
    /\ (GaveDict /\ Attempt.s \in {<<>>, <<"">>}) => AttemptFailed
    /\ (GaveDict /\ Attempt.s \notin {<<>>, <<"">>})
          => AttemptSucceeded(Attempt.s[1])
    /\ (GaveOther /\ Str(Attempt) # "") => AttemptSucceeded(Str(Attempt))
    /\ (GaveOther /\ Str(Attempt) = "") => AttemptFailed

\* create_pod has returned the empty string for the first of two candidates,
\* and the loop is at the second
C33_Witness ==
    /\ Attempt = StrResult("")
    /\ Len(affordable) = 2
    /\ Len(log) = 1
    /\ pc = "deploy_create" /\ idx = 2

----------------------------------------------------------------------------
(* Discovery over entries without an id *)

\* the positions of the listing whose pod name starts with the prefix and
\* whose id is neither absent nor empty
Usable == {i \in Candidates : listed.pods[i].id \notin {None, ""}}

\* C34: applied to a listing that was returned, _find_pod_by_type passes
\* over the pods whose name starts with the prefix but whose id is absent or
\* empty: it gives the id of the first pod of the listing that has the
\* prefix and a non-empty id, with the URL built from it, and (None, None)
\* when there is none; an id it gives is neither None nor empty.
C34_SkipsPodsWithoutId ==
    (Looked /\ ~listed.raised) =>
        /\ IF Usable = {}
           THEN found = NotFound
           ELSE /\ found.id = listed.pods[First(Usable)].id
                /\ found.url = found.id \o "-5000.proxy.runpod.net"
        /\ found # NotFound => found.id # None /\ found.id # ""

\* the first pod of the listing has the prefix and an empty id, and the
\* second one is returned
C34_Witness ==
    /\ Looked
    /\ Len(listed.pods) = 2
    /\ Candidates = {1, 2}
    /\ listed.pods[1].id = ""
    /\ found.id = listed.pods[2].id
    /\ found.id # None

----------------------------------------------------------------------------
(* Termination *)

\* an operation, or the wait_for_status a client has called, is running
Running == pc # "idle"

\* a step of wait_for_status that stays in its loop
WaitStays == pc \in WaitPositions /\ pc' = pc /\ elapsed' # elapsed

\* a step of wait_for_status that returns
WaitLeaves == pc \in WaitPositions /\ pc' # pc

\* C35: when every call of the provider returns or raises and the clock
\* advances, an operation that is running eventually returns.  An iteration
\* of wait_for_status that stays in the loop begins before the timeout and
\* ends at least one sleep later, so there are at most timeout / 5 of them,
\* rounded up, whatever statuses are polled; with a timeout of 0 or less
\* the function returns False without a poll; the creation loop of
\* deploy_pod goes from one candidate to the next and has issued no more
\* create requests than there are candidates.
C35_OperationsReturn ==
    /\ Running ~> ~Running
    /\ [][WaitStays => /\ elapsed < timeout
                       /\ elapsed' >= elapsed + PollInterval]_vars
    /\ [][(WaitLeaves /\ timeout <= 0)
             => /\ polled = None /\ polled' = None
                /\ elapsed = 0
                /\ out' = out
                /\ pc' = "idle" /\ ~result']_vars
    /\ [][(pc = "deploy_create" /\ log' # log)
             => /\ idx <= Len(affordable)
                /\ Count(log', "create") = idx
                /\ IF pc' = "deploy_create" THEN idx' = idx + 1
                   ELSE pc' = "idle" /\ idx' = idx]_vars

\* stop_pod has returned failure after a wait in which the pod went on
\* running until the timeout
C35_Witness ==
    /\ op = "stop" /\ Done /\ ~result
    /\ \E j \in Issued("stop") : log[j].ok
    /\ polled = "RUNNING"
====
